---- MODULE Spec2Model ----
(***************************************************************************)
(* A model of go-json-server (src/handler/handler.go, src/config/config.go)*)
(* : the request dispatcher, the path matcher, the fixture resolver and    *)
(* the response cache.                                                     *)
(*                                                                         *)
(* Strings that the code inspects character by character (request paths,   *)
(* route patterns, fixture contents) are sequences of one-character        *)
(* strings; strings the code only compares (methods, file names) are       *)
(* TLA+ strings.                                                           *)
(***************************************************************************)
EXTENDS Integers, Sequences, FiniteSets, TLC

VARIABLES
    endpoints,   \* Config.Endpoints: the active route table
    pathParams,  \* Server.PathParams: pattern -> parameter names
    cache,       \* ResponseCache.cache: key -> [content, expiration]
    now,         \* the reading of time.Now()
    disk,        \* the files and folders that exist: name -> content
    resp,        \* the last request and the response written for it
    fnArgs,      \* arguments of the function under test (pure-function specs)
    fnRet,       \* its result
    fnDone,      \* whether it has been applied
    hist,        \* history: the latest Set on each cache key since the last Clear
    mu,          \* ResponseCache.mu: who holds and who awaits the lock
    calls,       \* per goroutine: the cache operation it is in and its position
    fatal,       \* the Go runtime has aborted the program
    config,      \* the active Config without its endpoints: host, port, log settings
    cfgMu,       \* Config.mu: who holds the lock of the active configuration
    file,        \* the configuration file on disk
    events,      \* the file-change events the watcher has not read yet
    watcher,     \* the goroutine of WatchConfig: its position and what it loaded
    reloadCh,    \* the number of notifications in the reload channel
    request,     \* the request in flight: its position and the tables it got
    tally        \* history: reloads, notifications and cache clears so far

vars == <<endpoints, pathParams, cache, now, disk, resp, fnArgs, fnRet, fnDone, hist,
          mu, calls, fatal, config, cfgMu, file, events, watcher, reloadCh, request, tally>>

-----------------------------------------------------------------------------
(* Bounds of the model *)

MaxPatLen == 5
MaxPathLen == 4
MaxEndpoints == 2
MaxTime == 2
MaxTextLen == 4
MaxTTL == 1
\* Server.CacheTTL, in clock ticks
CacheTTL == 1

-----------------------------------------------------------------------------
(* package strings *)

\* all sequences over S of length at most n
RECURSIVE SeqsUpTo(_, _)
SeqsUpTo(S, n) ==
    IF n = 0 THEN {<<>>}
    ELSE LET shorter == SeqsUpTo(S, n - 1)
         IN  shorter \cup {Append(s, c) : s \in {t \in shorter : Len(t) = n - 1}, c \in S}

\* strings.HasPrefix
HasPrefix(s, prefix) ==
    /\ Len(prefix) <= Len(s)
    /\ SubSeq(s, 1, Len(prefix)) = prefix

\* the suffix of s starting at position i
From(s, i) == SubSeq(s, i, Len(s))

\* strings.Index for a one-character separator: position of the first sep in s, 0 if none
IndexChar(s, sep) ==
    IF \E i \in 1..Len(s) : s[i] = sep
    THEN CHOOSE i \in 1..Len(s) : s[i] = sep /\ \A j \in 1..(i - 1) : s[j] # sep
    ELSE 0

\* strings.Split(s, "/"): the pieces between separators, empty pieces kept
RECURSIVE Split(_, _)
Split(s, sep) ==
    LET i == IndexChar(s, sep)
    IN  IF i = 0 THEN <<s>>
        ELSE <<SubSeq(s, 1, i - 1)>> \o Split(From(s, i + 1), sep)

\* strings.ReplaceAll(s, old, new) for non-empty old: leftmost, non-overlapping
RECURSIVE ReplaceAll(_, _, _)
ReplaceAll(s, old, new) ==
    IF Len(s) = 0 THEN <<>>
    ELSE IF HasPrefix(s, old) THEN new \o ReplaceAll(From(s, Len(old) + 1), old, new)
    ELSE <<s[1]>> \o ReplaceAll(From(s, 2), old, new)

-----------------------------------------------------------------------------
(* Characters *)

Letters == {"a", "b", "c", "d", "e", "f", "g", "h", "i", "j", "k", "l", "m", "n", "o",
            "p", "q", "r", "s", "t", "u", "v", "w", "x", "y", "z",
            "A", "B", "C", "D", "E", "F", "G", "H", "I", "J", "K", "L", "M", "N", "O",
            "P", "Q", "R", "S", "T", "U", "V", "W", "X", "Y", "Z"}
Digits == {"0", "1", "2", "3", "4", "5", "6", "7", "8", "9"}
\* the class \w of package regexp
WordChars == Letters \cup Digits \cup {"_"}

-----------------------------------------------------------------------------
(* handler.go: path parameters *)

\* length of the longest run of word characters at the start of s
RECURSIVE WordRun(_)
WordRun(s) ==
    IF Len(s) > 0 /\ s[1] \in WordChars THEN 1 + WordRun(From(s, 2)) ELSE 0

\* extractPathParams: the submatches of `:([\w]+)` in path, left to right
RECURSIVE extractPathParams(_)
extractPathParams(path) ==
    IF Len(path) = 0 THEN <<>>
    ELSE IF path[1] = ":" /\ WordRun(From(path, 2)) > 0
         THEN LET n == WordRun(From(path, 2))
              IN  <<SubSeq(path, 2, n + 1)>> \o extractPathParams(From(path, n + 2))
         ELSE extractPathParams(From(path, 2))

\* NewServer: the index of patterns with parameters, over the API endpoints
NewPathParams(eps) ==
    LET pats == {eps[i].Path : i \in {j \in 1..Len(eps) :
                     eps[j].Folder = "" /\ Len(extractPathParams(eps[j].Path)) > 0}}
    IN  [p \in pats |-> extractPathParams(p)]

\* the result of matchPath: nil is Go's nil map, params the bindings
MatchResult(m, isNil, b) == [matched |-> m, nil |-> isNil, params |-> b]
NoMatch == MatchResult(FALSE, TRUE, <<>>)

\* the loop of matchPath over the pattern's parts, from part i with bindings acc
RECURSIVE matchParts(_, _, _, _)
matchParts(patternParts, pathParts, i, acc) ==
    IF i > Len(patternParts) THEN MatchResult(TRUE, FALSE, acc)
    ELSE LET part == patternParts[i]
         IN  IF HasPrefix(part, <<":">>)
             THEN LET paramName == From(part, 2)
                      bound == [n \in (DOMAIN acc) \cup {paramName} |->
                                   IF n = paramName THEN pathParts[i] ELSE acc[n]]
                  IN  matchParts(patternParts, pathParts, i + 1, bound)
             ELSE IF part # pathParts[i] THEN NoMatch
             ELSE matchParts(patternParts, pathParts, i + 1, acc)

\* a matchPath without the exact-match shortcut
matchPathParamOnly(index, pattern, path) ==
    IF pattern \notin DOMAIN index THEN NoMatch
    ELSE LET patternParts == Split(pattern, "/")
             pathParts == Split(path, "/")
         IN  IF Len(patternParts) # Len(pathParts) THEN NoMatch
             ELSE matchParts(patternParts, pathParts, 1, <<>>)

\* a matchPath that skips the segment-count check
matchPathNoCount(index, pattern, path) ==
    IF pattern = path THEN MatchResult(TRUE, TRUE, <<>>)
    ELSE IF pattern \notin DOMAIN index THEN NoMatch
    ELSE LET patternParts == Split(pattern, "/")
             pathParts == Split(path, "/")
         IN  IF Len(patternParts) > Len(pathParts) THEN NoMatch
             ELSE matchParts(patternParts, pathParts, 1, <<>>)

\* a matchPath that compares the parts of every pattern, registered or not
matchPathIgnoresIndex(index, pattern, path) ==
    IF pattern = path THEN MatchResult(TRUE, TRUE, <<>>)
    ELSE LET patternParts == Split(pattern, "/")
             pathParts == Split(path, "/")
         IN  IF Len(patternParts) # Len(pathParts) THEN NoMatch
             ELSE matchParts(patternParts, pathParts, 1, <<>>)

\* Server.matchPath, index being s.PathParams
matchPath(index, pattern, path) ==
    IF pattern = path THEN MatchResult(TRUE, TRUE, <<>>)
    ELSE IF pattern \notin DOMAIN index THEN NoMatch
    ELSE LET patternParts == Split(pattern, "/")
             pathParts == Split(path, "/")
         IN  IF Len(patternParts) # Len(pathParts) THEN NoMatch
             ELSE matchParts(patternParts, pathParts, 1, <<>>)

-----------------------------------------------------------------------------
(* config.go: endpoints and validation *)

Endpoint(method, status, path, jsonPath, folder) ==
    [Method |-> method, Status |-> status, Path |-> path, JsonPath |-> jsonPath, Folder |-> folder]

\* a key that also carries the status
PathMethodStatus(ep) == <<ep.Path, ":", ep.Method, ep.Status>>

\* the pathMethod key of Validate: ep.Path + ":" + ep.Method
PathMethod(ep) == <<ep.Path, ":", ep.Method>>

\* a Validate that checks every endpoint and returns the error found last
RECURSIVE validateFromLast(_, _, _, _)
validateFromLast(eps, files, i, seen) ==
    IF i > Len(eps) THEN "ok"
    ELSE LET ep == eps[i]
             own == IF ep.Path = <<>> THEN "ErrEmptyPath"
                    ELSE IF ep.Folder # ""
                         THEN IF ep.Folder \notin DOMAIN files THEN "ErrFolderNotFound" ELSE "ok"
                    ELSE IF PathMethod(ep) \in seen THEN "ErrDuplicateEndpoint"
                    ELSE IF ep.JsonPath # "" /\ ep.JsonPath \notin DOMAIN files
                         THEN "ErrJSONFileNotFound"
                    ELSE "ok"
             rest == validateFromLast(eps, files, i + 1,
                                      IF ep.Folder = "" THEN seen \cup {PathMethod(ep)} ELSE seen)
         IN  IF rest # "ok" THEN rest ELSE own

\* the loop of Validate from endpoint i, seen being the pathMethods map
RECURSIVE validateFrom(_, _, _, _)
validateFrom(eps, files, i, seen) ==
    IF i > Len(eps) THEN "ok"
    ELSE LET ep == eps[i]
         IN  IF ep.Path = <<>> THEN "ErrEmptyPath"
             ELSE IF ep.Folder # ""
                  THEN IF ep.Folder \notin DOMAIN files THEN "ErrFolderNotFound"
                       ELSE validateFrom(eps, files, i + 1, seen)
             ELSE IF PathMethod(ep) \in seen THEN "ErrDuplicateEndpoint"
             ELSE IF ep.JsonPath # "" /\ ep.JsonPath \notin DOMAIN files THEN "ErrJSONFileNotFound"
             ELSE validateFrom(eps, files, i + 1, seen \cup {PathMethod(ep)})

\* Config.Validate against the files and folders on disk
Validate(eps, files) ==
    IF Len(eps) = 0 THEN "ErrNoEndpoints" ELSE validateFrom(eps, files, 1, {})

\* the default port of LoadConfig
DefaultPort == 3000

\* a Config that no load has filled
NoConfig == <<>>

\* json.Unmarshal into a Config: a field the text does not give keeps its zero value
Unmarshal(text) ==
    [Host      |-> IF "host" \in DOMAIN text THEN text["host"] ELSE "",
     Port      |-> IF "port" \in DOMAIN text THEN text["port"] ELSE 0,
     LogLevel  |-> IF "logLevel" \in DOMAIN text THEN text["logLevel"] ELSE "",
     LogFormat |-> IF "logFormat" \in DOMAIN text THEN text["logFormat"] ELSE "",
     LogPath   |-> IF "logPath" \in DOMAIN text THEN text["logPath"] ELSE "",
     Endpoints |-> IF "endpoints" \in DOMAIN text THEN text["endpoints"] ELSE <<>>]

\* default settings that replace the configured values whatever they are
applyDefaultsAlways(cfg) ==
    [cfg EXCEPT !.Port = DefaultPort, !.LogLevel = "info", !.LogFormat = "text"]

\* LoadConfig: the default settings
applyDefaults(cfg) ==
    [cfg EXCEPT !.Port = IF @ = 0 THEN DefaultPort ELSE @,
                !.LogLevel = IF @ = "" THEN "info" ELSE @,
                !.LogFormat = IF @ = "" THEN "text" ELSE @]

\* LoadConfig of the file f ([state, text]) with the files and folders on disk:
\* the error ("nil" for none) and the configuration returned
LoadConfig(f, files) ==
    IF f.state = "missing" THEN [err |-> "read", config |-> NoConfig]
    ELSE IF f.state = "malformed" THEN [err |-> "parse", config |-> NoConfig]
    ELSE LET loaded == applyDefaults(Unmarshal(f.text))
             invalid == Validate(loaded.Endpoints, files)
         IN  IF invalid # "ok" THEN [err |-> invalid, config |-> NoConfig]
             ELSE [err |-> "nil", config |-> loaded]

-----------------------------------------------------------------------------
(* handler.go: the response cache (the map under its lock) *)

\* the cache key of HandleRequest: fmt.Sprintf("%s:%s", r.Method, r.URL.Path)
CacheKeyPathOnly(method, path) == <<"", ":", path>>

CacheKey(method, path) == <<method, ":", path>>

\* time.Time.After
After(t, u) == t > u

\* an expiry test with the operands of After exchanged
ExpiredSwapped(entry, t) == After(entry.expiration, t)

\* the expiry test of ResponseCache.Get
Expired(entry, t) == After(t, entry.expiration)

\* a Get that never finds anything
CacheGetMiss(c, key, t) == [found |-> FALSE, content |-> <<>>, cache |-> c]

\* ResponseCache.Get: the content returned, whether found, and the map afterwards
CacheGet(c, key, t) ==
    IF key \notin DOMAIN c THEN [found |-> FALSE, content |-> <<>>, cache |-> c]
    ELSE IF Expired(c[key], t)
         THEN [found |-> FALSE, content |-> <<>>,
               cache |-> [k \in (DOMAIN c) \ {key} |-> c[k]]]
         ELSE [found |-> TRUE, content |-> c[key].content, cache |-> c]

\* a Set that leaves an entry that is already there as it is
CacheSetIfAbsent(c, key, content, t, ttl) ==
    IF key \in DOMAIN c THEN c
    ELSE [k \in (DOMAIN c) \cup {key} |->
             IF k = key THEN [content |-> content, expiration |-> t + ttl] ELSE c[k]]

\* ResponseCache.Set: the map afterwards
CacheSet(c, key, content, t, ttl) ==
    [k \in (DOMAIN c) \cup {key} |->
        IF k = key THEN [content |-> content, expiration |-> t + ttl] ELSE c[k]]

-----------------------------------------------------------------------------
(* encoding/json: whether a text is well-formed JSON (json.Unmarshal into   *)
(* interface{} fails exactly on texts that are not). Each Parse operator    *)
(* takes the position where its construct starts and returns the position   *)
(* after it, or 0 when the text has no such construct there.                *)

Whitespace == {" ", "\t", "\n", "\r"}
HexDigits == Digits \cup {"a", "b", "c", "d", "e", "f", "A", "B", "C", "D", "E", "F"}
SimpleEscapes == {"\"", "\\", "/", "b", "f", "n", "r", "t"}

At(s, i) == IF i >= 1 /\ i <= Len(s) THEN s[i] ELSE "EOF"

RECURSIVE SkipWs(_, _)
SkipWs(s, i) == IF At(s, i) \in Whitespace THEN SkipWs(s, i + 1) ELSE i

RECURSIVE SkipDigits(_, _)
SkipDigits(s, i) == IF At(s, i) \in Digits THEN SkipDigits(s, i + 1) ELSE i

\* i is just after the opening quote
RECURSIVE ParseStringBody(_, _)
ParseStringBody(s, i) ==
    LET c == At(s, i)
    IN  IF c = "EOF" \/ c \in {"\t", "\n", "\r"} THEN 0
        ELSE IF c = "\"" THEN i + 1
        ELSE IF c = "\\"
             THEN IF At(s, i + 1) \in SimpleEscapes THEN ParseStringBody(s, i + 2)
                  ELSE IF At(s, i + 1) = "u" /\ \A k \in 2..5 : At(s, i + k) \in HexDigits
                       THEN ParseStringBody(s, i + 6)
                  ELSE 0
        ELSE ParseStringBody(s, i + 1)

ParseString(s, i) == IF At(s, i) = "\"" THEN ParseStringBody(s, i + 1) ELSE 0

ParseNumber(s, i) ==
    LET start == IF At(s, i) = "-" THEN i + 1 ELSE i
        afterInt == IF At(s, start) = "0" THEN start + 1
                    ELSE IF At(s, start) \in Digits THEN SkipDigits(s, start)
                    ELSE 0
        afterFrac == IF afterInt = 0 THEN 0
                     ELSE IF At(s, afterInt) = "."
                          THEN IF At(s, afterInt + 1) \in Digits
                               THEN SkipDigits(s, afterInt + 1) ELSE 0
                     ELSE afterInt
        expStart == IF At(s, afterFrac + 1) \in {"+", "-"} THEN afterFrac + 2 ELSE afterFrac + 1
    IN  IF afterFrac = 0 THEN 0
        ELSE IF At(s, afterFrac) \in {"e", "E"}
             THEN IF At(s, expStart) \in Digits THEN SkipDigits(s, expStart) ELSE 0
        ELSE afterFrac

ParseLiteral(s, i, lit) ==
    IF i + Len(lit) - 1 <= Len(s) /\ SubSeq(s, i, i + Len(lit) - 1) = lit THEN i + Len(lit) ELSE 0

RECURSIVE ParseValue(_, _)
RECURSIVE ParseMembers(_, _)
RECURSIVE ParseElements(_, _)

\* i is at the first key of a non-empty object
ParseMembers(s, i) ==
    LET afterKey == ParseString(s, i)
        colon == IF afterKey = 0 THEN 0 ELSE SkipWs(s, afterKey)
        afterVal == IF colon = 0 \/ At(s, colon) # ":" THEN 0 ELSE ParseValue(s, colon + 1)
        next == IF afterVal = 0 THEN 0 ELSE SkipWs(s, afterVal)
    IN  IF next = 0 THEN 0
        ELSE IF At(s, next) = "}" THEN next + 1
        ELSE IF At(s, next) = "," THEN ParseMembers(s, SkipWs(s, next + 1))
        ELSE 0

\* i is at the first element of a non-empty array
ParseElements(s, i) ==
    LET afterVal == ParseValue(s, i)
        next == IF afterVal = 0 THEN 0 ELSE SkipWs(s, afterVal)
    IN  IF next = 0 THEN 0
        ELSE IF At(s, next) = "]" THEN next + 1
        ELSE IF At(s, next) = "," THEN ParseElements(s, next + 1)
        ELSE 0

ParseValue(s, i) ==
    LET j == SkipWs(s, i)
        c == At(s, j)
    IN  IF c = "{"
        THEN IF At(s, SkipWs(s, j + 1)) = "}" THEN SkipWs(s, j + 1) + 1
             ELSE ParseMembers(s, SkipWs(s, j + 1))
        ELSE IF c = "["
        THEN IF At(s, SkipWs(s, j + 1)) = "]" THEN SkipWs(s, j + 1) + 1
             ELSE ParseElements(s, j + 1)
        ELSE IF c = "\"" THEN ParseString(s, j)
        ELSE IF c = "-" \/ c \in Digits THEN ParseNumber(s, j)
        ELSE IF c = "t" THEN ParseLiteral(s, j, <<"t", "r", "u", "e">>)
        ELSE IF c = "f" THEN ParseLiteral(s, j, <<"f", "a", "l", "s", "e">>)
        ELSE IF c = "n" THEN ParseLiteral(s, j, <<"n", "u", "l", "l">>)
        ELSE 0

\* json.Unmarshal(text, &jsonObj) returns no error
ValidJSON(s) ==
    LET end == ParseValue(s, 1)
    IN  end # 0 /\ SkipWs(s, end) = Len(s) + 1

-----------------------------------------------------------------------------
(* handler.go: the fixture resolver *)

\* the orders in which a range over a map with key set S may visit its keys
RECURSIVE Orders(_)
Orders(S) ==
    IF S = {} THEN {<<>>}
    ELSE UNION {{<<x>> \o o : o \in Orders(S \ {x})} : x \in S}

\* the replacement loop of getJSONResponse, visiting the parameters in this order
RECURSIVE substitute(_, _, _)
substitute(text, params, order) ==
    IF Len(order) = 0 THEN text
    ELSE substitute(ReplaceAll(text, <<":">> \o order[1], params[order[1]]),
                    params, Tail(order))

\* a getJSONResponse that returns the substituted text unvalidated
resolveContentNoCheck(content, params, order) ==
    IF Cardinality(DOMAIN params) = 0 THEN content
    ELSE substitute(content, params, order)

\* a getJSONResponse that validates every fixture and answers text that is not
\* well-formed JSON with no bytes
resolveContentValidated(content, params, order) ==
    LET contentStr == IF Cardinality(DOMAIN params) = 0 THEN content
                      ELSE substitute(content, params, order)
    IN  IF ~ValidJSON(contentStr) THEN <<>> ELSE contentStr

\* a getJSONResponse that validates the fixture instead of the substituted text
resolveContentChecksOriginal(content, params, order) ==
    IF Cardinality(DOMAIN params) = 0 THEN content
    ELSE LET contentStr == substitute(content, params, order)
         IN  IF ~ValidJSON(content) THEN content ELSE contentStr

\* what getJSONResponse returns for a readable file's content, the parameters
\* visited in this order
resolveContent(content, params, order) ==
    IF Cardinality(DOMAIN params) = 0 THEN content
    ELSE LET contentStr == substitute(content, params, order)
         IN  IF ~ValidJSON(contentStr) THEN content ELSE contentStr

\* Server.getJSONResponse(jsonPath, pathParams) against the files on disk, the
\* parameters visited in this order: the bytes and the error it returns
getJSONResponse(files, jsonPath, params, order) ==
    IF jsonPath \notin DOMAIN files
    THEN [content |-> <<>>, err |-> "ErrJSONFileNotFound"]
    ELSE [content |-> resolveContent(files[jsonPath], params, order), err |-> "nil"]

-----------------------------------------------------------------------------
(* handler.go: HandleRequest *)

Q == "\""
NotFoundBody ==
    <<"{", Q, "e", "r", "r", "o", "r", Q, ":", " ", Q, "N", "o", "t", " ", "f", "o", "u", "n", "d", Q, "}">>
\* a 500 body that carries the error of os.Open
OpenErrorBody ==
    <<"{", Q, "e", "r", "r", "o", "r", Q, ":", " ", Q, "o", "p", "e", "n", " ", "b", ".", "j", "s", "o", "n", Q, "}">>

InternalErrorBody ==
    <<"{", Q, "e", "r", "r", "o", "r", Q, ":", " ", Q, "I", "n", "t", "e", "r", "n", "a", "l", " ",
      "s", "e", "r", "v", "e", "r", " ", "e", "r", "r", "o", "r", Q, "}">>

\* a first loop that compares the whole path instead of a prefix
RECURSIVE firstMountExact(_, _, _)
firstMountExact(eps, path, i) ==
    IF i > Len(eps) THEN 0
    ELSE IF eps[i].Folder # "" /\ path = eps[i].Path THEN i
    ELSE firstMountExact(eps, path, i + 1)

\* the first loop of HandleRequest from endpoint i: the index of the file server
\* endpoint that takes the request, 0 if none
RECURSIVE firstMount(_, _, _)
firstMount(eps, path, i) ==
    IF i > Len(eps) THEN 0
    ELSE IF eps[i].Folder # "" /\ HasPrefix(path, eps[i].Path) THEN i
    ELSE firstMount(eps, path, i + 1)

\* a second loop that does not compare the method
RECURSIVE firstRouteAnyMethod(_, _, _, _, _, _)
firstRouteAnyMethod(eps, index, method, path, i, consulted) ==
    IF i > Len(eps) THEN [served |-> 0, match |-> NoMatch, consulted |-> consulted]
    ELSE IF eps[i].Folder # ""
         THEN firstRouteAnyMethod(eps, index, method, path, i + 1, consulted)
    ELSE LET m == matchPath(index, eps[i].Path, path)
         IN  IF m.matched
             THEN [served |-> i, match |-> m, consulted |-> Append(consulted, i)]
             ELSE firstRouteAnyMethod(eps, index, method, path, i + 1, Append(consulted, i))

\* the second loop of HandleRequest from endpoint i: the index of the API endpoint
\* that takes the request (0 if none), its match, and the endpoints matchPath was
\* called for
RECURSIVE firstRoute(_, _, _, _, _, _)
firstRoute(eps, index, method, path, i, consulted) ==
    IF i > Len(eps) THEN [served |-> 0, match |-> NoMatch, consulted |-> consulted]
    ELSE IF eps[i].Folder # "" THEN firstRoute(eps, index, method, path, i + 1, consulted)
    ELSE LET m == matchPath(index, eps[i].Path, path)
         IN  IF m.matched /\ eps[i].Method = method
             THEN [served |-> i, match |-> m, consulted |-> Append(consulted, i)]
             ELSE firstRoute(eps, index, method, path, i + 1, Append(consulted, i))

Response(method, path, kind, served, status, body, fromCache, consulted) ==
    [method |-> method, path |-> path, kind |-> kind, served |-> served, status |-> status,
     body |-> body, fromCache |-> fromCache, consulted |-> consulted]

NoResponse == Response("", <<>>, "none", 0, 0, <<>>, FALSE, <<>>)

\* a HandleRequest that also caches the body of a 500 answer
handleRoutesCachingErrors(eps, index, c, t, files, ttl, method, path) ==
    LET route == firstRoute(eps, index, method, path, 1, <<>>)
        ep == eps[route.served]
        key == CacheKey(method, path)
        got == CacheGet(c, key, t)
    IN  IF route.served = 0
        THEN {[resp |-> Response(method, path, "notfound", 0, 404, NotFoundBody, FALSE,
                                 route.consulted),
               cache |-> c]}
        ELSE IF got.found
        THEN {[resp |-> Response(method, path, "json", route.served, ep.Status,
                                 got.content, TRUE, route.consulted),
               cache |-> got.cache]}
        ELSE IF ep.JsonPath \notin DOMAIN files
        THEN {[resp |-> Response(method, path, "error", route.served, 500,
                                 InternalErrorBody, FALSE, route.consulted),
               cache |-> CacheSet(got.cache, key, InternalErrorBody, t, ttl)]}
        ELSE {[resp |-> Response(method, path, "json", route.served, ep.Status,
                                 resolveContent(files[ep.JsonPath], route.match.params, order),
                                 FALSE, route.consulted),
               cache |-> CacheSet(got.cache, key,
                                  resolveContent(files[ep.JsonPath], route.match.params, order),
                                  t, ttl)] :
              order \in Orders(DOMAIN route.match.params)}

\* Server.HandleRequest with Server.getJSONResponse: the responses it may write
\* and the cache each leaves, for the table eps, the parameter index, the cache c,
\* the clock reading t and the files on disk
handleRoutes(eps, index, c, t, files, ttl, method, path) ==
    LET route == firstRoute(eps, index, method, path, 1, <<>>)
        ep == eps[route.served]
        key == CacheKey(method, path)
        got == CacheGet(c, key, t)
    IN  IF route.served = 0
        THEN {[resp |-> Response(method, path, "notfound", 0, 404, NotFoundBody, FALSE,
                                 route.consulted),
               cache |-> c]}
        ELSE IF got.found
        THEN {[resp |-> Response(method, path, "json", route.served, ep.Status,
                                 got.content, TRUE, route.consulted),
               cache |-> got.cache]}
        ELSE IF ep.JsonPath \notin DOMAIN files
        THEN {[resp |-> Response(method, path, "error", route.served, 500,
                                 InternalErrorBody, FALSE, route.consulted),
               cache |-> got.cache]}
        ELSE {[resp |-> Response(method, path, "json", route.served, ep.Status,
                                 resolveContent(files[ep.JsonPath], route.match.params, order),
                                 FALSE, route.consulted),
               cache |-> CacheSet(got.cache, key,
                                  resolveContent(files[ep.JsonPath], route.match.params, order),
                                  t, ttl)] :
              order \in Orders(DOMAIN route.match.params)}

\* a HandleRequest that treats OPTIONS like any other method
handleWithoutPreflight(eps, index, c, t, files, ttl, method, path) ==
    IF firstMount(eps, path, 1) # 0
    THEN {[resp |-> Response(method, path, "static", firstMount(eps, path, 1), 0, <<>>, FALSE, <<>>),
           cache |-> c]}
    ELSE handleRoutes(eps, index, c, t, files, ttl, method, path)

\* HandleRequest on one table for both loops
handle(eps, index, c, t, files, ttl, method, path) ==
    IF method = "OPTIONS"
    THEN {[resp |-> Response(method, path, "options", 0, 200, <<>>, FALSE, <<>>), cache |-> c]}
    ELSE IF firstMount(eps, path, 1) # 0
    THEN {[resp |-> Response(method, path, "static", firstMount(eps, path, 1), 0, <<>>, FALSE, <<>>),
           cache |-> c]}
    ELSE handleRoutes(eps, index, c, t, files, ttl, method, path)

-----------------------------------------------------------------------------
(* The server: built from a configuration that LoadConfig accepted, it       *)
(* answers requests one after the other.                                     *)
(*   SpecRoute: every table of at most MaxEndpoints endpoints of             *)
(*              EndpointPool, the clock standing still;                      *)
(*   Spec:      the tables over TimedPool and the README's scenario, the     *)
(*              clock advancing, so that cache entries expire.               *)

\* the files and folders on disk and their contents ("gone.json" is not there)
ExistingFiles ==
    [f \in {"user.json", "p.json", "b.json", "c.json", "static"} |->
        CASE f = "user.json" ->
                <<"{", Q, "i", "d", Q, ":", Q, ":", "i", "d", Q, ",",
                  Q, "n", "a", "m", "e", Q, ":", Q, "J", "o", "h", "n", Q, "}">>
          [] f = "p.json" -> <<Q, ":", "i", Q>>
          [] f = "b.json" -> <<"1">>
          [] f = "c.json" -> <<"2">>
          [] f = "static" -> <<>>]

\* the endpoints the candidate configurations are made of
TimedPool ==
    { Endpoint("GET", 200, <<"/", ":", "i">>, "p.json", ""),
      Endpoint("GET", 201, <<"/", "b">>, "b.json", ""),
      Endpoint("POST", 201, <<"/", "b">>, "c.json", "") }

EndpointPool ==
    TimedPool \cup
    { Endpoint("", 0, <<"/", "b">>, "", "static"),
      Endpoint("GET", 200, <<"/", "b">>, "", ""),
      Endpoint("OPTIONS", 200, <<"/", "b">>, "b.json", ""),
      Endpoint("GET", 200, <<"/", "b">>, "gone.json", "") }

\* the scenario of the README: GET /user/:id answered from user.json
ScenarioConfig ==
    <<Endpoint("GET", 200, <<"/", "u", "s", "e", "r", "/", ":", "i", "d">>, "user.json", "")>>

\* the configurations over a pool that LoadConfig accepts
Accepted(pool) ==
    {cfg \in SeqsUpTo(pool, MaxEndpoints) \cup {ScenarioConfig} :
        Validate(cfg, ExistingFiles) = "ok"}

Methods == {"GET", "POST", "OPTIONS"}

RequestPaths ==
    { <<"/", "b">>, <<"/", "b", "b">>, <<"/", ":", "i">>,
      <<"/", "u", "s", "e", "r", "/", "4", "2">> }

lockVars == <<mu, calls, fatal>>

NoGoroutines ==
    /\ mu = <<>>
    /\ calls = <<>>
    /\ fatal = FALSE

reloadVars == <<config, cfgMu, file, events, watcher, reloadCh, request, tally>>

NoWatcher ==
    /\ config = <<>>
    /\ cfgMu = <<>>
    /\ file = <<>>
    /\ events = <<>>
    /\ watcher = <<>>
    /\ reloadCh = 0
    /\ request = <<>>
    /\ tally = <<>>

fnVars == <<fnArgs, fnRet, fnDone, hist, lockVars, reloadVars>>

\* the state NewServer leaves for the configuration cfg, the disk holding files
StartedOn(cfg, files) ==
    /\ endpoints = cfg
    /\ pathParams = NewPathParams(cfg)
    /\ cache = <<>>
    /\ now = 0
    /\ disk = files
    /\ resp = NoResponse
    /\ fnArgs = <<>>
    /\ fnRet = NoMatch
    /\ fnDone = FALSE
    /\ hist = <<>>
    /\ NoGoroutines
    /\ NoWatcher

Init == \E cfg \in Accepted(TimedPool) : StartedOn(cfg, ExistingFiles)

InitRoute == \E cfg \in Accepted(EndpointPool) : StartedOn(cfg, ExistingFiles)

HandleRequest ==
    /\ \E method \in Methods, path \in RequestPaths :
          \E out \in handle(endpoints, pathParams, cache, now, disk, CacheTTL,
                            method, path) :
              /\ resp' = out.resp
              /\ cache' = out.cache
    /\ UNCHANGED <<endpoints, pathParams, now, disk, fnVars>>

Tick ==
    /\ now < MaxTime
    /\ now' = now + 1
    /\ UNCHANGED <<endpoints, pathParams, cache, disk, resp, fnVars>>

Next == HandleRequest \/ Tick

Spec == Init /\ [][Next]_vars

NextRoute == HandleRequest

SpecRoute == InitRoute /\ [][NextRoute]_vars

-----------------------------------------------------------------------------
(* SpecResolve: a server with one parametrized GET route whose fixture is    *)
(* any text over ResolveChars within MaxTextLen (or the README's scenario)   *)
(* answers its first request.                                                *)

ResolveChars == {Q, ":", "a", "1"}

\* the segment values of the requests
ValuePool == {<<>>, <<"1">>, <<"a">>, <<Q>>, <<":", "a">>}

ResolvePatterns == {<<"/", "a">>, <<"/", ":", "a">>, <<"/", ":", "a", "/", ":", "a", "a">>}

ResolvePaths ==
    {<<"/">> \o v : v \in ValuePool}
    \cup {<<"/">> \o v \o <<"/">> \o w : v, w \in ValuePool}
    \cup {<<"/", "u", "s", "e", "r", "/", "4", "2">>}

InitResolve ==
    \/ \E pattern \in ResolvePatterns, text \in SeqsUpTo(ResolveChars, MaxTextLen) :
          /\ Validate(<<Endpoint("GET", 200, pattern, "f.json", "")>>, [f \in {"f.json"} |-> text]) = "ok"
          /\ StartedOn(<<Endpoint("GET", 200, pattern, "f.json", "")>>, [f \in {"f.json"} |-> text])
    \/ /\ Validate(ScenarioConfig, ExistingFiles) = "ok"
       /\ StartedOn(ScenarioConfig, ExistingFiles)

HandleFirstRequest ==
    /\ resp.kind = "none"
    /\ \E path \in ResolvePaths :
          \E out \in handle(endpoints, pathParams, cache, now, disk, CacheTTL, "GET", path) :
              /\ resp' = out.resp
              /\ cache' = out.cache
    /\ UNCHANGED <<endpoints, pathParams, now, disk, fnVars>>

NextResolve == HandleFirstRequest

SpecResolve == InitResolve /\ [][NextResolve]_vars

\* the bindings of the last request against the endpoint that served it
Bindings == matchPath(pathParams, endpoints[resp.served].Path, resp.path).params

\* the fixture of the endpoint that served the last request
Fixture == disk[endpoints[resp.served].JsonPath]

\* the last request was resolved from the fixture with bindings
ResolvedWithBindings ==
    /\ resp.kind = "json"
    /\ ~resp.fromCache
    /\ DOMAIN Bindings # {}

ScenarioBody ==
    <<"{", Q, "i", "d", Q, ":", Q, "4", "2", Q, ",", Q, "n", "a", "m", "e", Q, ":", Q, "J", "o", "h", "n", Q, "}">>

ScenarioAnswered ==
    (/\ endpoints = ScenarioConfig
     /\ resp.method = "GET"
     /\ resp.path = <<"/", "u", "s", "e", "r", "/", "4", "2">>)
    => (resp.status = 200 /\ resp.body = ScenarioBody)

\* C6 as stated: with non-empty bindings the body is the fixture text with every
\* occurrence of every `:name` replaced by the bound value; GET /user/42 on the
\* scenario's route gets 200 and {"id":"42","name":"John"}.
C6_AsStated ==
    /\ ResolvedWithBindings =>
          \E order \in Orders(DOMAIN Bindings) : resp.body = substitute(Fixture, Bindings, order)
    /\ ScenarioAnswered

\* C6 (amended): with non-empty bindings the body is the fixture text with the
\* occurrences of `:name` replaced by the bound value, one binding after the other
\* in some order, when that text is well-formed JSON, and the unchanged fixture
\* bytes when it is not; GET /user/42 on the scenario's route gets 200 and
\* {"id":"42","name":"John"}.
C6_SubstitutedWhenValid ==
    /\ ResolvedWithBindings =>
          \E order \in Orders(DOMAIN Bindings) :
              LET text == substitute(Fixture, Bindings, order)
              IN  resp.body = IF ValidJSON(text) THEN text ELSE Fixture
    /\ ScenarioAnswered

\* the scenario's request was answered with the substituted fixture
C6_Witness ==
    /\ endpoints = ScenarioConfig
    /\ resp.path = <<"/", "u", "s", "e", "r", "/", "4", "2">>
    /\ resp.status = 200
    /\ resp.body = ScenarioBody
    /\ resp.body # Fixture

\* C21: with non-empty bindings the body is the substituted text, which is then
\* well-formed JSON, or, when the substituted text is not well-formed JSON, the
\* unsubstituted fixture bytes; in both cases the request is answered with the
\* route's configured status and no error.
C21_SubstitutedOrOriginal ==
    ResolvedWithBindings =>
        /\ \E order \in Orders(DOMAIN Bindings) :
              LET text == substitute(Fixture, Bindings, order)
              IN  \/ resp.body = text /\ ValidJSON(resp.body)
                  \/ resp.body = Fixture /\ ~ValidJSON(text)
        /\ resp.status = endpoints[resp.served].Status
        /\ resp.status # 500

\* a fixture that is well-formed JSON until the bound value is put in was served
\* unsubstituted with the route's status
C21_Witness ==
    /\ ResolvedWithBindings
    /\ ValidJSON(Fixture)
    /\ \A order \in Orders(DOMAIN Bindings) :
          /\ ~ValidJSON(substitute(Fixture, Bindings, order))
          /\ substitute(Fixture, Bindings, order) # Fixture
    /\ resp.body = Fixture
    /\ resp.status = 200

\* the last request was resolved from the fixture without bindings
ResolvedWithoutBindings ==
    /\ resp.kind = "json"
    /\ ~resp.fromCache
    /\ DOMAIN Bindings = {}

\* C20: with empty bindings the body is the fixture file's bytes unchanged,
\* whatever the fixture holds, well-formed JSON or not.
C20_RawWithoutBindings ==
    ResolvedWithoutBindings =>
        /\ resp.body = Fixture
        /\ resp.status = endpoints[resp.served].Status

\* a fixture that is not well-formed JSON was served as it is
C20_Witness ==
    /\ ResolvedWithoutBindings
    /\ Fixture = <<"a", ":", Q>>
    /\ ~ValidJSON(Fixture)
    /\ resp.body = Fixture

-----------------------------------------------------------------------------
(* SpecTwice: getJSONResponse is called twice with the same fixture path and *)
(* the same bindings while the fixture stays as it is; hist keeps what the   *)
(* calls returned.                                                           *)

\* the values bound to the parameters
TwiceValues == {<<"1">>, <<":", "1">>, <<":", "a">>}

\* the parameter names of the routes /:a, /:a/:aa and /:a/:1
TwiceNames == {{<<"a">>}, {<<"a">>, <<"a", "a">>}, {<<"a">>, <<"1">>}}

TwiceBindings == UNION {[names -> TwiceValues] : names \in TwiceNames}

InitTwice ==
    \E text \in SeqsUpTo(ResolveChars, MaxTextLen), params \in TwiceBindings :
        /\ endpoints = <<>>
        /\ pathParams = <<>>
        /\ cache = <<>>
        /\ now = 0
        /\ disk = [f \in {"f.json"} |-> text]
        /\ resp = NoResponse
        /\ fnArgs = [jsonPath |-> "f.json", pathParams |-> params]
        /\ fnRet = [content |-> <<>>, err |-> "none"]
        /\ fnDone = FALSE
        /\ hist = <<>>
        /\ NoGoroutines
        /\ NoWatcher

\* one call of getJSONResponse; the range over the map visits the parameters in
\* an order of its own
CallGetJSONResponse ==
    /\ ~fnDone
    /\ \E order \in Orders(DOMAIN fnArgs.pathParams) :
          fnRet' = getJSONResponse(disk, fnArgs.jsonPath, fnArgs.pathParams, order)
    /\ hist' = Append(hist, fnRet')
    /\ fnDone' = (Len(hist') = 2)
    /\ UNCHANGED <<endpoints, pathParams, cache, now, disk, resp, fnArgs, lockVars, reloadVars>>

NextTwice == CallGetJSONResponse

SpecTwice == InitTwice /\ [][NextTwice]_vars

\* C22: two calls of resolve with the same fixture path, the same unchanged
\* fixture content and the same bindings return byte-identical output, for
\* every set of bindings, also when one parameter name is a prefix of another
\* or a bound value contains another parameter's `:name`.
C22_Idempotent ==
    Len(hist) = 2 => hist[1] = hist[2]

-----------------------------------------------------------------------------
(* SpecFixture: a server whose fixture files are removed from the disk or    *)
(* rewritten under it; hist tells whether a request has been answered 500.   *)

\* the routes of the candidate configurations
FixturePool ==
    { Endpoint("GET", 200, <<"/", ":", "i">>, "p.json", ""),
      Endpoint("GET", 201, <<"/", "b">>, "b.json", "") }

FixturePaths == {<<"/", "b">>, <<"/", ":", "i">>}

InitFixture == \E cfg \in Accepted(FixturePool) : StartedOn(cfg, ExistingFiles)

\* the fixture files of the active table
FixtureFiles == {endpoints[i].JsonPath : i \in DOMAIN endpoints}

\* os.Remove of a fixture file
RemoveFixture ==
    /\ \E f \in FixtureFiles \cap DOMAIN disk :
          disk' = [g \in DOMAIN disk \ {f} |-> disk[g]]
    /\ UNCHANGED <<endpoints, pathParams, cache, now, resp, fnVars>>

\* what a fixture file is rewritten with
FixtureTexts == {<<"2">>}

\* os.WriteFile over a fixture file
RewriteFixture ==
    /\ \E f \in FixtureFiles, text \in FixtureTexts :
          disk' = [g \in DOMAIN disk \cup {f} |-> IF g = f THEN text ELSE disk[g]]
    /\ UNCHANGED <<endpoints, pathParams, cache, now, resp, fnVars>>

\* Server.HandleRequest for one request
ServeRequest ==
    /\ \E method \in {"GET", "POST"}, path \in FixturePaths :
          \E out \in handle(endpoints, pathParams, cache, now, disk, CacheTTL,
                            method, path) :
              /\ resp' = out.resp
              /\ cache' = out.cache
              /\ hist' = IF out.resp.kind = "error" THEN <<"error">> ELSE hist
    /\ UNCHANGED <<endpoints, pathParams, now, disk, fnArgs, fnRet, fnDone, lockVars, reloadVars>>

NextFixture == ServeRequest \/ RemoveFixture \/ RewriteFixture \/ Tick

SpecFixture == InitFixture /\ [][NextFixture]_vars

\* the generic body of a 500 answer
GenericErrorBody ==
    <<"{", Q, "e", "r", "r", "o", "r", Q, ":", " ", Q, "I", "n", "t", "e", "r", "n", "a", "l", " ",
      "s", "e", "r", "v", "e", "r", " ", "e", "r", "r", "o", "r", Q, "}">>

\* the request of this step matched an API route whose fixture is not on disk
MatchedWithoutFixture ==
    /\ ServeRequest
    /\ resp'.kind \in {"json", "error"}
    /\ endpoints[resp'.served].JsonPath \notin DOMAIN disk

\* the request of this step matched an API route whose fixture is on disk
\* and did not find its answer in the cache
MatchedWithFixture ==
    /\ ServeRequest
    /\ resp'.kind \in {"json", "error"}
    /\ ~resp'.fromCache
    /\ endpoints[resp'.served].JsonPath \in DOMAIN disk

\* C23 as stated: a request that matches an API route whose fixture cannot be
\* opened is answered 500 with the generic body; the server keeps running and
\* later requests are still served.
C23_AsStated ==
    [][
        /\ MatchedWithoutFixture =>
             /\ resp'.status = 500
             /\ resp'.body = GenericErrorBody
        /\ (MatchedWithFixture /\ hist = <<"error">>) =>
             /\ resp'.kind = "json"
             /\ resp'.status = endpoints[resp'.served].Status
    ]_vars

\* C23 (amended): a request that matches an API route whose fixture cannot be
\* opened is answered 500 with the generic body, unless an unexpired cached
\* response for its method and path is served instead; nothing is cached for
\* it, the server keeps running and later requests are still served.
C23_GenericError ==
    [][
        /\ (MatchedWithoutFixture /\ ~resp'.fromCache) =>
             /\ resp'.kind = "error"
             /\ resp'.status = 500
             /\ resp'.body = GenericErrorBody
             /\ CacheKey(resp'.method, resp'.path) \notin DOMAIN cache'
        /\ (MatchedWithoutFixture /\ resp'.fromCache) =>
             /\ CacheKey(resp'.method, resp'.path) \in DOMAIN cache
             /\ ~Expired(cache[CacheKey(resp'.method, resp'.path)], now)
             /\ resp'.body = cache[CacheKey(resp'.method, resp'.path)].content
             /\ resp'.status = endpoints[resp'.served].Status
        /\ (MatchedWithFixture /\ hist = <<"error">>) =>
             /\ resp'.kind = "json"
             /\ resp'.status = endpoints[resp'.served].Status
        /\ ServeRequest => (endpoints' = endpoints /\ ~fatal')
    ]_vars

\* after a request was answered 500, a request for a route whose fixture is
\* there was answered from the fixture
C23_Witness ==
    /\ hist = <<"error">>
    /\ "b.json" \notin DOMAIN disk
    /\ resp.kind = "json"
    /\ ~resp.fromCache
    /\ resp.status = 200
    /\ resp.path = <<"/", ":", "i">>
    /\ endpoints[resp.served].JsonPath = "p.json"
    /\ resp.body = disk["p.json"]

\* the cache holds an entry for this method and path that has not expired
\* (now < expiresAt)
Unexpired(method, path) ==
    /\ CacheKey(method, path) \in DOMAIN cache
    /\ now < cache[CacheKey(method, path)].expiration

\* C32: while an unexpired entry exists for the method and path of a request,
\* HandleRequest answers it with the cached bytes and the status of the route
\* it matches, whatever the fixture file holds by then; the entry stays as it
\* is until it expires, so every repeat within the TTL gets the same body.
C32_ServedFromCache ==
    [][
        /\ (ServeRequest /\ Unexpired(resp'.method, resp'.path)) =>
              /\ resp'.kind = "json"
              /\ resp'.fromCache
              /\ resp'.body = cache[CacheKey(resp'.method, resp'.path)].content
              /\ resp'.status = endpoints[resp'.served].Status
              /\ cache' = cache
        /\ \A method \in {"GET", "POST"}, path \in FixturePaths :
              Unexpired(method, path) =>
                  /\ CacheKey(method, path) \in DOMAIN cache'
                  /\ cache'[CacheKey(method, path)] = cache[CacheKey(method, path)]
    ]_vars

\* a request was answered from an unexpired entry with bytes that differ from
\* what its fixture file holds by now
C32_Witness ==
    /\ resp.kind = "json"
    /\ resp.fromCache
    /\ Unexpired(resp.method, resp.path)
    /\ resp.body = cache[CacheKey(resp.method, resp.path)].content
    /\ endpoints[resp.served].JsonPath \in DOMAIN disk
    /\ resp.path = <<"/", "b">>
    /\ resp.body # disk[endpoints[resp.served].JsonPath]

\* the request of this step was answered 404 or 500
AnsweredWithFailure ==
    /\ ServeRequest
    /\ resp'.kind \in {"notfound", "error"}

\* C33: a request answered 404 or 500 adds no cache entry and changes none
\* (the lookup removes at most the expired entry of the request's own key), no
\* entry for its method and path is left, and the next identical request is
\* not answered from the cache.
C33_NoEntryOnFailure ==
    [][
        /\ AnsweredWithFailure =>
              /\ \A k \in DOMAIN cache' : k \in DOMAIN cache /\ cache'[k] = cache[k]
              /\ \A k \in DOMAIN cache \ DOMAIN cache' :
                    /\ k = CacheKey(resp'.method, resp'.path)
                    /\ ~(now < cache[k].expiration)
              /\ CacheKey(resp'.method, resp'.path) \notin DOMAIN cache'
        /\ ( /\ ServeRequest
             /\ resp.kind \in {"notfound", "error"}
             /\ resp'.method = resp.method
             /\ resp'.path = resp.path ) => ~resp'.fromCache
    ]_vars

\* on a table of one route, a request was answered 500 and, the fixture
\* written again, the same request was answered from the fixture
C33_Witness ==
    /\ Len(endpoints) = 1
    /\ hist = <<"error">>
    /\ resp.kind = "json"
    /\ resp.path = <<"/", "b">>
    /\ ~resp.fromCache
    /\ resp.body = disk[endpoints[1].JsonPath]

-----------------------------------------------------------------------------
(* SpecCache: the operations of ResponseCache called one after the other     *)
(* (each under its lock) while the clock advances.                           *)

CacheKeys == {CacheKey("GET", <<"/", "a">>), CacheKey("POST", <<"/", "a">>)}
Contents == {<<"1">>, <<"2">>}

NoCall == [op |-> "none", key |-> <<>>, content |-> <<>>, ttl |-> 0, at |-> 0]
NoReturn == [found |-> FALSE, content |-> <<>>]

InitCache ==
    /\ endpoints = <<>>
    /\ pathParams = <<>>
    /\ cache = <<>>
    /\ now = 0
    /\ disk = <<>>
    /\ resp = NoResponse
    /\ fnArgs = NoCall
    /\ fnRet = NoReturn
    /\ fnDone = FALSE
    /\ hist = <<>>
    /\ NoGoroutines
    /\ NoWatcher

\* ResponseCache.Set
Set ==
    /\ \E key \in CacheKeys, content \in Contents, ttl \in 0..MaxTTL :
          /\ cache' = CacheSet(cache, key, content, now, ttl)
          /\ fnArgs' = [op |-> "set", key |-> key, content |-> content, ttl |-> ttl, at |-> now]
          /\ hist' = [k \in (DOMAIN hist) \cup {key} |->
                         IF k = key THEN [content |-> content, ttl |-> ttl, at |-> now]
                         ELSE hist[k]]
    /\ fnRet' = NoReturn
    /\ UNCHANGED <<endpoints, pathParams, now, disk, resp, fnDone, lockVars, reloadVars>>

\* ResponseCache.Get
Get ==
    /\ \E key \in CacheKeys :
          LET got == CacheGet(cache, key, now)
          IN  /\ cache' = got.cache
              /\ fnRet' = [found |-> got.found, content |-> got.content]
              /\ fnArgs' = [op |-> "get", key |-> key, content |-> <<>>, ttl |-> 0, at |-> now]
    /\ UNCHANGED <<endpoints, pathParams, now, disk, resp, fnDone, hist, lockVars, reloadVars>>

\* ResponseCache.Clear
Clear ==
    /\ cache' = <<>>
    /\ hist' = <<>>
    /\ fnArgs' = [NoCall EXCEPT !.op = "clear", !.at = now]
    /\ fnRet' = NoReturn
    /\ UNCHANGED <<endpoints, pathParams, now, disk, resp, fnDone, lockVars, reloadVars>>

NextCache == Set \/ Get \/ Clear \/ Tick

SpecCache == InitCache /\ [][NextCache]_vars

\* the last operation was a Get on a key that a Set stored since the last Clear
GotStored == fnArgs.op = "get" /\ fnArgs.key \in DOMAIN hist

\* C7: for ttl > 0, a Get that follows the Set on its key with the clock unchanged
\* returns the Set's content and true; a Get after the clock has advanced beyond
\* the ttl since the latest Set on its key returns not-found.
C7_SetThenGet ==
    (GotStored /\ hist[fnArgs.key].ttl > 0) =>
        /\ fnArgs.at = hist[fnArgs.key].at =>
              (fnRet.found /\ fnRet.content = hist[fnArgs.key].content)
        /\ fnArgs.at > hist[fnArgs.key].at + hist[fnArgs.key].ttl => ~fnRet.found

\* a Get after the clock advanced beyond the ttl of the Set on its key found nothing
C7_Witness ==
    /\ GotStored
    /\ hist[fnArgs.key].ttl > 0
    /\ fnArgs.at > hist[fnArgs.key].at + hist[fnArgs.key].ttl
    /\ ~fnRet.found

\* C8: Get returns the stored content only when now < expiresAt, so an entry is
\* not returned at now = expiresAt (an entry stored with ttl = 0 is not returned
\* by a Get at the same clock reading).
C8_StrictExpiry ==
    (GotStored /\ fnRet.found) =>
        fnArgs.at < hist[fnArgs.key].at + hist[fnArgs.key].ttl

\* C31: Set(k, v, ttl) stores or overwrites the entry of k with content v and
\* expiry now + ttl, whatever was there, and leaves the entries of all other
\* keys as they were; Clear removes every entry in one step.
C31_SetOverwritesClearEmpties ==
    [][
        /\ (Set /\ fnArgs'.op = "set") =>
              /\ DOMAIN cache' = DOMAIN cache \cup {fnArgs'.key}
              /\ cache'[fnArgs'.key] =
                    [content |-> fnArgs'.content, expiration |-> now + fnArgs'.ttl]
              /\ \A k \in DOMAIN cache \ {fnArgs'.key} : cache'[k] = cache[k]
        /\ (Clear /\ fnArgs'.op = "clear") => DOMAIN cache' = {}
    ]_vars

\* a Set at time 2 has replaced the entry of its key, the expired entry of the
\* other key still being there
C31_Witness ==
    /\ fnArgs.op = "set"
    /\ fnArgs.at = 2
    /\ DOMAIN cache = CacheKeys
    /\ DOMAIN hist = CacheKeys
    /\ cache[fnArgs.key] = [content |-> fnArgs.content, expiration |-> 2 + fnArgs.ttl]
    /\ \E k \in CacheKeys \ {fnArgs.key} :
          /\ cache[k].expiration < 2
          /\ cache[k].content = hist[k].content

-----------------------------------------------------------------------------
(* SpecLock: goroutines calling ResponseCache.Get, Set and Clear at the same *)
(* time, one step per lock operation and per map access. mu is the           *)
(* sync.RWMutex of the cache: any number of readers or one writer, and a     *)
(* writer that has called Lock keeps new readers out until it has released   *)
(* the lock. A delete of the map takes two steps, so that other accesses can *)
(* fall inside it; the Go runtime either detects such an access and aborts   *)
(* the program (fatal) or lets it through.                                   *)

Goroutines == {"g1", "g2"}
LockContent == <<"1">>

Idle == [pc |-> "idle", op |-> "none", key |-> <<>>, ttl |-> 0, found |-> FALSE]
Unlocked == [readers |-> {}, writer |-> "none", pending |-> {}]

InitLock ==
    /\ endpoints = <<>>
    /\ pathParams = <<>>
    /\ cache = <<>>
    /\ now = 0
    /\ disk = <<>>
    /\ resp = NoResponse
    /\ fnArgs = NoCall
    /\ fnRet = NoReturn
    /\ fnDone = FALSE
    /\ hist = <<>>
    /\ mu = Unlocked
    /\ calls = [g \in Goroutines |-> Idle]
    /\ fatal = FALSE
    /\ NoWatcher

restVars == <<endpoints, pathParams, disk, resp, fnArgs, fnRet, fnDone, hist, reloadVars>>

\* a goroutine at pc moves to next
Goto(g, next) == [calls EXCEPT ![g].pc = next]

\* goroutines in the middle of a delete of the map
Deleting == {g \in Goroutines : calls[g].pc = "deleting"}

\* c.mu.RLock() can return: no writer holds the lock and none waits for it
RLockReadyIgnoringWriters(m) == TRUE

RLockReady(m) == m.writer = "none" /\ m.pending = {}

\* c.mu.Lock() can return: no reader and no writer holds the lock
LockReady(m) == m.writer = "none" /\ m.readers = {}

CallGet ==
    /\ ~fatal
    /\ \E g \in Goroutines, key \in CacheKeys :
          /\ calls[g].pc = "idle"
          /\ calls' = [calls EXCEPT ![g] = [pc |-> "rlock", op |-> "Get", key |-> key,
                                            ttl |-> 0, found |-> FALSE]]
    /\ UNCHANGED <<cache, now, mu, fatal, restVars>>

CallSet ==
    /\ ~fatal
    /\ \E g \in Goroutines, key \in CacheKeys, ttl \in 0..MaxTTL :
          /\ calls[g].pc = "idle"
          /\ calls' = [calls EXCEPT ![g] = [pc |-> "lock", op |-> "Set", key |-> key,
                                            ttl |-> ttl, found |-> FALSE]]
    /\ UNCHANGED <<cache, now, mu, fatal, restVars>>

CallClear ==
    /\ ~fatal
    /\ \E g \in Goroutines :
          /\ calls[g].pc = "idle"
          /\ calls' = [calls EXCEPT ![g] = [Idle EXCEPT !.pc = "lock", !.op = "Clear"]]
    /\ UNCHANGED <<cache, now, mu, fatal, restVars>>

\* Get: c.mu.RLock()
RLock ==
    /\ ~fatal
    /\ \E g \in Goroutines :
          /\ calls[g].pc = "rlock"
          /\ RLockReady(mu)
          /\ mu' = [mu EXCEPT !.readers = @ \cup {g}]
          /\ calls' = Goto(g, "lookup")
    /\ UNCHANGED <<cache, now, fatal, restVars>>

\* Get: cached, ok := c.cache[key] and the expiry test
Lookup ==
    /\ ~fatal
    /\ \E g \in Goroutines :
          /\ calls[g].pc = "lookup"
          /\ \/ /\ Deleting # {}
                /\ fatal' = TRUE
                /\ UNCHANGED calls
             \/ /\ \E g2 \in Deleting : calls[g2].key = calls[g].key
                /\ calls' = [calls EXCEPT ![g].pc = "runlock", ![g].found = FALSE]
                /\ UNCHANGED fatal
             \/ /\ calls' =
                      IF calls[g].key \notin DOMAIN cache
                      THEN [calls EXCEPT ![g].pc = "runlock", ![g].found = FALSE]
                      ELSE IF Expired(cache[calls[g].key], now)
                           THEN Goto(g, "delete")
                           ELSE [calls EXCEPT ![g].pc = "runlock", ![g].found = TRUE]
                /\ UNCHANGED fatal
    /\ UNCHANGED <<cache, now, mu, restVars>>

\* Get: delete(c.cache, key) starts
DeleteBegin ==
    /\ ~fatal
    /\ \E g \in Goroutines :
          /\ calls[g].pc = "delete"
          /\ \/ /\ Deleting # {}
                /\ fatal' = TRUE
                /\ UNCHANGED calls
             \/ /\ calls' = Goto(g, "deleting")
                /\ UNCHANGED fatal
    /\ UNCHANGED <<cache, now, mu, restVars>>

\* Get: delete(c.cache, key) completes
DeleteEnd ==
    /\ ~fatal
    /\ \E g \in Goroutines :
          /\ calls[g].pc = "deleting"
          /\ cache' = [k \in (DOMAIN cache) \ {calls[g].key} |-> cache[k]]
          /\ calls' = [calls EXCEPT ![g].pc = "runlock", ![g].found = FALSE]
    /\ UNCHANGED <<now, mu, fatal, restVars>>

\* Get: the deferred c.mu.RUnlock() and the return
RUnlock ==
    /\ ~fatal
    /\ \E g \in Goroutines :
          /\ calls[g].pc = "runlock"
          /\ mu' = [mu EXCEPT !.readers = @ \ {g}]
          /\ calls' = Goto(g, "idle")
    /\ UNCHANGED <<cache, now, fatal, restVars>>

\* Set, Clear: c.mu.Lock() is called
LockRequest ==
    /\ ~fatal
    /\ \E g \in Goroutines :
          /\ calls[g].pc = "lock"
          /\ mu' = [mu EXCEPT !.pending = @ \cup {g}]
          /\ calls' = Goto(g, "lockwait")
    /\ UNCHANGED <<cache, now, fatal, restVars>>

\* Set, Clear: c.mu.Lock() returns
LockAcquire ==
    /\ ~fatal
    /\ \E g \in Goroutines :
          /\ calls[g].pc = "lockwait"
          /\ LockReady(mu)
          /\ mu' = [mu EXCEPT !.writer = g, !.pending = @ \ {g}]
          /\ calls' = Goto(g, "write")
    /\ UNCHANGED <<cache, now, fatal, restVars>>

\* Set: c.cache[key] = cachedResponse{...}
Store ==
    /\ ~fatal
    /\ \E g \in Goroutines :
          /\ calls[g].pc = "write"
          /\ calls[g].op = "Set"
          /\ cache' = CacheSet(cache, calls[g].key, LockContent, now, calls[g].ttl)
          /\ calls' = Goto(g, "unlock")
    /\ UNCHANGED <<now, mu, fatal, restVars>>

\* Clear: c.cache = make(map[string]cachedResponse)
Reset ==
    /\ ~fatal
    /\ \E g \in Goroutines :
          /\ calls[g].pc = "write"
          /\ calls[g].op = "Clear"
          /\ cache' = <<>>
          /\ calls' = Goto(g, "unlock")
    /\ UNCHANGED <<now, mu, fatal, restVars>>

\* Set, Clear: the deferred c.mu.Unlock()
Unlock ==
    /\ ~fatal
    /\ \E g \in Goroutines :
          /\ calls[g].pc = "unlock"
          /\ mu' = [mu EXCEPT !.writer = "none"]
          /\ calls' = Goto(g, "idle")
    /\ UNCHANGED <<cache, now, fatal, restVars>>

NextLock ==
    \/ CallGet \/ CallSet \/ CallClear
    \/ RLock \/ Lookup \/ DeleteBegin \/ DeleteEnd \/ RUnlock
    \/ LockRequest \/ LockAcquire \/ Store \/ Reset \/ Unlock
    \/ Tick

SpecLock == InitLock /\ [][NextLock]_vars

\* C9: Get calls running at the same time are safe: no holder of the read lock
\* writes the entry map while another holder of the read lock is about to read
\* or is writing it, and the runtime never aborts the program for it.
C9_ReadersNeverWrite ==
    /\ ~fatal
    /\ \A g \in Deleting :
          \A g2 \in mu.readers \ {g} : calls[g2].pc \notin {"lookup", "delete", "deleting"}

\* g holds the write lock for a Set on a key other than the key of g2's Get,
\* and g2 has called RLock
SetHoldsWhileGetWaits(g, g2) ==
    /\ mu.writer = g
    /\ calls[g].op = "Set"
    /\ calls[g2].pc = "rlock"
    /\ calls[g2].key # calls[g].key

\* C10: a Get on key A is not blocked by a Set in progress on another key B:
\* while the Set holds its lock, the RLock of the Get can return.
C10_AsStated ==
    \A g, g2 \in Goroutines : SetHoldsWhileGetWaits(g, g2) => RLockReady(mu)

\* C10: the cache has one lock for all keys. While a Set (on any key) holds it, no
\* Get is between its RLock and its RUnlock, and the RLock of a Get on another
\* key does not return.
C10_OneLockForAllKeys ==
    \A g \in Goroutines :
        (mu.writer = g /\ calls[g].op = "Set") =>
            /\ mu.readers = {}
            /\ \A g2 \in Goroutines : SetHoldsWhileGetWaits(g, g2) => ~RLockReady(mu)

C10_Witness == \E g, g2 \in Goroutines : SetHoldsWhileGetWaits(g, g2) /\ calls[g].pc = "unlock"

-----------------------------------------------------------------------------
(* SpecRace: two requests for the same method and path run HandleRequest's   *)
(* cache lookup, resolution and Set at the same time, on a cache that is     *)
(* empty or holds an earlier response for the key. hist keeps, for each      *)
(* request, how far it is, the bytes it resolved and when it stored them.    *)

RaceKey == CacheKey("GET", <<"/", "a">>)

NotStarted == [phase |-> "start", body |-> <<>>, at |-> 0]

\* an earlier response for the key, stored at time 0
EarlierEntry == CacheSet(<<>>, RaceKey, <<"0">>, 0, 0)

InitRace ==
    /\ endpoints = <<>>
    /\ pathParams = <<>>
    /\ cache \in {<<>>, EarlierEntry}
    /\ now = 0
    /\ disk = <<>>
    /\ resp = NoResponse
    /\ fnArgs = NoCall
    /\ fnRet = NoReturn
    /\ fnDone = FALSE
    /\ hist = [g \in Goroutines |-> NotStarted]
    /\ mu = Unlocked
    /\ calls = [g \in Goroutines |-> Idle]
    /\ fatal = FALSE
    /\ NoWatcher

raceRest == <<endpoints, pathParams, disk, resp, fnArgs, fnRet, fnDone, reloadVars>>

\* HandleRequest: s.Cache.Get(cacheKey) is called
RequestGet ==
    /\ ~fatal
    /\ \E g \in Goroutines :
          /\ hist[g].phase = "start"
          /\ calls' = [calls EXCEPT ![g] = [pc |-> "rlock", op |-> "Get", key |-> RaceKey,
                                            ttl |-> 0, found |-> FALSE]]
          /\ hist' = [hist EXCEPT ![g].phase = "get"]
    /\ UNCHANGED <<cache, now, mu, fatal, raceRest>>

\* HandleRequest: Get has returned; on a hit the cached bytes are written, on a
\* miss getJSONResponse resolves the body and s.Cache.Set is called
RequestResolve ==
    /\ ~fatal
    /\ \E g \in Goroutines :
          /\ hist[g].phase = "get"
          /\ calls[g].pc = "idle"
          /\ IF calls[g].found
             THEN /\ hist' = [hist EXCEPT ![g].phase = "hit"]
                  /\ UNCHANGED calls
             ELSE \E body \in Contents :
                     /\ hist' = [hist EXCEPT ![g].phase = "set", ![g].body = body]
                     /\ calls' = [calls EXCEPT ![g] = [pc |-> "lock", op |-> "Set",
                                                       key |-> RaceKey, ttl |-> CacheTTL,
                                                       found |-> FALSE]]
    /\ UNCHANGED <<cache, now, mu, fatal, raceRest>>

\* Set: c.cache[key] = cachedResponse{content, time.Now().Add(ttl)}
StoreResolved ==
    /\ ~fatal
    /\ \E g \in Goroutines :
          /\ calls[g].pc = "write"
          /\ cache' = CacheSet(cache, calls[g].key, hist[g].body, now, calls[g].ttl)
          /\ hist' = [hist EXCEPT ![g].at = now]
          /\ calls' = Goto(g, "unlock")
    /\ UNCHANGED <<now, mu, fatal, raceRest>>

NextRace ==
    \/ RequestGet \/ RequestResolve \/ StoreResolved
    \/ RLock \/ Lookup \/ DeleteBegin \/ DeleteEnd \/ RUnlock
    \/ LockRequest \/ LockAcquire \/ Unlock
    \/ Tick

SpecRace == InitRace /\ [][NextRace]_vars

\* the request of g missed the cache, resolved and has set its bytes
MissedAndSet(g) == hist[g].phase = "set" /\ calls[g].pc = "idle"

\* the whole entry the Set of g stores
EntryOf(g) == [content |-> hist[g].body, expiration |-> hist[g].at + CacheTTL]

\* C30: two requests for the same uncached key that run at the same time both
\* go through (miss, resolve, Set), and afterwards the cache holds one whole
\* entry for the key, the one stored by one of the two.
C30_OneWholeEntry ==
    /\ ~fatal
    /\ (\A g \in Goroutines : MissedAndSet(g)) =>
          /\ DOMAIN cache = {RaceKey}
          /\ \E g \in Goroutines : cache[RaceKey] = EntryOf(g)

-----------------------------------------------------------------------------
(* SpecReload: the server while its configuration file changes. The          *)
(* goroutine of WatchConfig reads the file-change events and reloads the     *)
(* configuration; one request at a time is handled, statement by statement   *)
(* where it reads the active configuration; the receiver of the reload       *)
(* channel clears the response cache.                                        *)

MaxEvents == 2
\* the capacity of the reload channel
ReloadChCap == 1

JsonFile(text) == [state |-> "json", text |-> text]

FileA ==
    JsonFile([k \in {"port", "logLevel", "endpoints"} |->
        CASE k = "port" -> 8080
          [] k = "logLevel" -> "debug"
          [] k = "endpoints" -> <<Endpoint("GET", 201, <<"/", "b">>, "b.json", "")>>])

FileB ==
    JsonFile([k \in {"host", "endpoints"} |->
        CASE k = "host" -> "h"
          [] k = "endpoints" -> <<Endpoint("", 0, <<"/", "b">>, "", "static"),
                                  Endpoint("GET", 200, <<"/", ":", "i">>, "p.json", "")>>])

FileDuplicate ==
    JsonFile([k \in {"endpoints"} |->
        <<Endpoint("GET", 201, <<"/", "b">>, "b.json", ""),
          Endpoint("GET", 200, <<"/", "b">>, "c.json", "")>>])

FileMalformed == [state |-> "malformed", text |-> <<>>]
FileMissing == [state |-> "missing", text |-> <<>>]

\* what a write leaves in the configuration file
WrittenFiles == {FileA, FileB, FileDuplicate, FileMalformed}

\* the events of the watched directory
FileEvents == [name : {"config", "other"}, op : {"write", "remove"}]

\* the settings of a configuration, its endpoints apart
Settings(cfg) ==
    [Host |-> cfg.Host, Port |-> cfg.Port, LogLevel |-> cfg.LogLevel,
     LogFormat |-> cfg.LogFormat, LogPath |-> cfg.LogPath]

WatcherIdle == [pc |-> "select", err |-> "none", loaded |-> NoConfig]
RequestIdle == [pc |-> "idle", method |-> "", path |-> <<>>, phase |-> 0, n |-> 0,
                got |-> <<>>, tables |-> <<>>]
ConfigUnlocked == [readers |-> 0, writer |-> FALSE]
NoTally == [events |-> 0, reloads |-> 0, failed |-> 0, sent |-> 0, clears |-> 0]

\* main: LoadConfig, NewServer, WatchConfig
InitReload ==
    \E f \in {FileA, FileB} :
        /\ endpoints = LoadConfig(f, ExistingFiles).config.Endpoints
        /\ pathParams = NewPathParams(LoadConfig(f, ExistingFiles).config.Endpoints)
        /\ config = Settings(LoadConfig(f, ExistingFiles).config)
        /\ file = f
        /\ cache = <<>>
        /\ now = 0
        /\ disk = ExistingFiles
        /\ resp = NoResponse
        /\ fnArgs = <<>>
        /\ fnRet = NoMatch
        /\ fnDone = FALSE
        /\ hist = <<>>
        /\ NoGoroutines
        /\ cfgMu = ConfigUnlocked
        /\ events = <<>>
        /\ watcher = WatcherIdle
        /\ reloadCh = 0
        /\ request = RequestIdle
        /\ tally = NoTally

serveVars == <<pathParams, now, disk, fnArgs, fnRet, fnDone, hist, lockVars>>

\* something happens to a file of the watched directory
FileEvent ==
    /\ tally.events < MaxEvents
    /\ \E ev \in FileEvents :
          /\ events' = Append(events, ev)
          /\ \/ ev.name = "config" /\ ev.op = "write" /\ file' \in WrittenFiles
             \/ ev.name = "config" /\ ev.op = "remove" /\ file' = FileMissing
             \/ ev.name = "other" /\ file' = file
    /\ tally' = [tally EXCEPT !.events = @ + 1]
    /\ UNCHANGED <<endpoints, cache, resp, config, cfgMu, watcher, reloadCh, request, serveVars>>

\* WatchConfig: the event filter that takes every event of the configuration file
reloadsOnAnyOp(ev) == ev.name = "config"

\* WatchConfig: event.Name == configPath && event.Op&fsnotify.Write == fsnotify.Write
reloadsOn(ev) == ev.name = "config" /\ ev.op = "write"

\* WatchConfig: case event := <-watcher.Events
ReadEvent ==
    /\ watcher.pc = "select"
    /\ events # <<>>
    /\ events' = Tail(events)
    /\ watcher' = [watcher EXCEPT !.pc = IF reloadsOn(Head(events)) THEN "reload" ELSE "select"]
    /\ UNCHANGED <<endpoints, cache, resp, config, cfgMu, file, reloadCh, request, tally, serveVars>>

\* Config.Reload: LoadConfig after the delay, and the return on its error
ReloadLoad ==
    /\ watcher.pc = "reload"
    /\ LET loaded == LoadConfig(file, disk)
       IN  watcher' = IF loaded.err # "nil"
                      THEN [pc |-> "returned", err |-> loaded.err, loaded |-> NoConfig]
                      ELSE [pc |-> "lock", err |-> "nil", loaded |-> loaded.config]
    /\ UNCHANGED <<endpoints, cache, resp, config, cfgMu, file, events, reloadCh, request, tally,
                   serveVars>>

\* Config.Reload: c.mu.Lock()
ReloadLock ==
    /\ watcher.pc = "lock"
    /\ cfgMu.readers = 0
    /\ ~cfgMu.writer
    /\ cfgMu' = [cfgMu EXCEPT !.writer = TRUE]
    /\ watcher' = [watcher EXCEPT !.pc = "assign"]
    /\ UNCHANGED <<endpoints, cache, resp, config, file, events, reloadCh, request, tally, serveVars>>

\* assignments that leave c.Endpoints out
reloadAssignWithoutEndpoints(active, loaded) ==
    [config |-> Settings(loaded), endpoints |-> active]

\* Config.Reload: what the assignments leave in the settings and in c.Endpoints
reloadAssign(active, loaded) ==
    [config |-> Settings(loaded), endpoints |-> loaded.Endpoints]

\* Config.Reload: the assignments of the fields
ReloadAssign ==
    /\ watcher.pc = "assign"
    /\ config' = reloadAssign(endpoints, watcher.loaded).config
    /\ endpoints' = reloadAssign(endpoints, watcher.loaded).endpoints
    /\ watcher' = [watcher EXCEPT !.pc = "unlock"]
    /\ UNCHANGED <<cache, resp, cfgMu, file, events, reloadCh, request, tally, serveVars>>

\* Config.Reload: the deferred c.mu.Unlock() and return nil
ReloadUnlock ==
    /\ watcher.pc = "unlock"
    /\ cfgMu' = [cfgMu EXCEPT !.writer = FALSE]
    /\ watcher' = [watcher EXCEPT !.pc = "returned"]
    /\ UNCHANGED <<endpoints, cache, resp, config, file, events, reloadCh, request, tally, serveVars>>

\* a successful reload without a notification
notifiesNever(err) == FALSE

\* WatchConfig: a notification for every return of Reload
notifiesAlways(err) == TRUE

\* WatchConfig: if err := config.Reload(configPath); err != nil {...} else if reloadCh != nil
notifies(err) == err = "nil"

\* a watcher whose goroutine returns when Reload fails
afterReloadStops(err) == IF err = "nil" THEN "send" ELSE "stopped"

\* WatchConfig: where the loop goes when Reload has returned err
afterReload(err) == IF notifies(err) THEN "send" ELSE "select"

\* WatchConfig: the branch on the result of Reload
ReloadReturned ==
    /\ watcher.pc = "returned"
    /\ watcher' = [pc |-> afterReload(watcher.err), err |-> "none", loaded |-> NoConfig]
    /\ tally' = IF watcher.err = "nil" THEN [tally EXCEPT !.reloads = @ + 1]
                ELSE [tally EXCEPT !.failed = @ + 1]
    /\ UNCHANGED <<endpoints, cache, resp, config, cfgMu, file, events, reloadCh, request, serveVars>>

\* WatchConfig: reloadCh <- true
SendReload ==
    /\ watcher.pc = "send"
    /\ reloadCh < ReloadChCap
    /\ reloadCh' = reloadCh + 1
    /\ watcher' = [watcher EXCEPT !.pc = "select"]
    /\ tally' = [tally EXCEPT !.sent = @ + 1]
    /\ UNCHANGED <<endpoints, cache, resp, config, cfgMu, file, events, request, serveVars>>

\* the receiver of the reload channel: <-reloadCh, then Server.ClearCache
ReceiveReload ==
    /\ reloadCh > 0
    /\ reloadCh' = reloadCh - 1
    /\ cache' = <<>>
    /\ tally' = [tally EXCEPT !.clears = @ + 1]
    /\ UNCHANGED <<endpoints, resp, config, cfgMu, file, events, watcher, request, serveVars>>

ReloadMethods == {"GET", "OPTIONS"}
ReloadPaths == {<<"/", "b">>}

watchVars == <<file, events, watcher, reloadCh, tally>>

\* Server.HandleRequest up to the first loop
BeginRequest ==
    /\ request.pc = "idle"
    /\ \E method \in ReloadMethods, path \in ReloadPaths :
          IF method = "OPTIONS"
          THEN /\ resp' = Response(method, path, "options", 0, 200, <<>>, FALSE, <<>>)
               /\ request' = [RequestIdle EXCEPT !.method = method, !.path = path]
          ELSE /\ request' = [RequestIdle EXCEPT !.pc = "rlock", !.method = method,
                                                 !.path = path, !.phase = 1]
               /\ UNCHANGED resp
    /\ UNCHANGED <<endpoints, cache, config, cfgMu, watchVars, serveVars>>

\* a read lock that is granted while Reload holds the lock
readerAdmittedAlways(m) == TRUE

\* Config.mu.RLock() can return
readerAdmitted(m) == ~m.writer

\* Config.GetEndpoints: c.mu.RLock()
GetEndpointsRLock ==
    /\ request.pc = "rlock"
    /\ readerAdmitted(cfgMu)
    /\ cfgMu' = [cfgMu EXCEPT !.readers = @ + 1]
    /\ request' = [request EXCEPT !.pc = "make"]
    /\ UNCHANGED <<endpoints, cache, resp, config, watchVars, serveVars>>

\* Config.GetEndpoints: make([]Endpoint, len(c.Endpoints))
GetEndpointsMake ==
    /\ request.pc = "make"
    /\ request' = [request EXCEPT !.pc = "copy", !.n = Len(endpoints)]
    /\ UNCHANGED <<endpoints, cache, resp, config, cfgMu, watchVars, serveVars>>

ZeroEndpoint == Endpoint("", 0, <<>>, "", "")

\* copy(dst, src) into a slice of n zero values
copyInto(n, src) == [i \in 1..n |-> IF i <= Len(src) THEN src[i] ELSE ZeroEndpoint]

\* Config.GetEndpoints: copy(endpoints, c.Endpoints)
GetEndpointsCopy ==
    /\ request.pc = "copy"
    /\ request' = [request EXCEPT !.pc = "runlock", !.got = copyInto(request.n, endpoints)]
    /\ UNCHANGED <<endpoints, cache, resp, config, cfgMu, watchVars, serveVars>>

\* Config.GetEndpoints: the deferred c.mu.RUnlock() and the return; after the
\* first call, the loop of HandleRequest over the file servers
GetEndpointsReturn ==
    /\ request.pc = "runlock"
    /\ cfgMu' = [cfgMu EXCEPT !.readers = @ - 1]
    /\ IF request.phase = 1
       THEN IF firstMount(request.got, request.path, 1) # 0
            THEN /\ resp' = Response(request.method, request.path, "static",
                                     firstMount(request.got, request.path, 1), 0, <<>>,
                                     FALSE, <<>>)
                 /\ request' = [RequestIdle EXCEPT !.method = request.method,
                                                   !.path = request.path,
                                                   !.tables = <<request.got>>]
            ELSE /\ request' = [request EXCEPT !.pc = "rlock", !.phase = 2, !.n = 0,
                                               !.got = <<>>, !.tables = <<request.got>>]
                 /\ UNCHANGED resp
       ELSE /\ request' = [request EXCEPT !.pc = "serve",
                                          !.tables = Append(request.tables, request.got)]
            /\ UNCHANGED resp
    /\ UNCHANGED <<endpoints, cache, config, watchVars, serveVars>>

\* Server.HandleRequest: the loop over the API endpoints, the cache and the fixture
ServeRoutes ==
    /\ request.pc = "serve"
    /\ \E out \in handleRoutes(request.got, pathParams, cache, now, disk, CacheTTL,
                               request.method, request.path) :
          /\ resp' = out.resp
          /\ cache' = out.cache
    /\ request' = [RequestIdle EXCEPT !.method = request.method, !.path = request.path,
                                      !.tables = request.tables]
    /\ UNCHANGED <<endpoints, config, cfgMu, watchVars, serveVars>>

NextReload ==
    \/ FileEvent \/ ReadEvent
    \/ ReloadLoad \/ ReloadLock \/ ReloadAssign \/ ReloadUnlock \/ ReloadReturned
    \/ SendReload \/ ReceiveReload
    \/ BeginRequest \/ GetEndpointsRLock \/ GetEndpointsMake \/ GetEndpointsCopy
    \/ GetEndpointsReturn \/ ServeRoutes

SpecReload == InitReload /\ [][NextReload]_vars

\* the candidate file cannot be read, parsed or validated
Rejected(f, files) ==
    \/ f.state # "json"
    \/ Validate(Unmarshal(f.text).Endpoints, files) # "ok"

\* the watcher is in, or has just left, a Reload that returned an error
ReloadFailing(w) == w.err \notin {"none", "nil"}

\* C11: a reload whose candidate cannot be read, parsed or validated returns an
\* error, and no step of that reload changes the active endpoints, the active
\* settings or a cache entry, nor puts a notification in the reload channel.
C11_FailedReloadChangesNothing ==
    [][ /\ (watcher.pc = "reload" /\ watcher'.pc # "reload") =>
              (Rejected(file, disk) <=> ReloadFailing(watcher'))
        /\ (watcher' # watcher /\ (ReloadFailing(watcher) \/ ReloadFailing(watcher'))) =>
              /\ endpoints' = endpoints
              /\ config' = config
              /\ cache' = cache
              /\ reloadCh' = reloadCh
              /\ tally'.sent = tally.sent
              /\ watcher'.pc \in {"returned", "select"} ]_vars

\* a reload has failed while the cache held an entry, and the watcher waits again
C11_Witness ==
    /\ tally.failed > 0
    /\ cache # <<>>
    /\ watcher.pc = "select"
    /\ tally.sent = 0

\* Reload has just returned nil
ReloadSucceeded == watcher.pc = "returned" /\ watcher.err = "nil"

\* the active configuration is the one Reload loaded
ActiveIsLoaded ==
    /\ endpoints = watcher.loaded.Endpoints
    /\ config.Host = watcher.loaded.Host
    /\ config.Port = watcher.loaded.Port
    /\ config.LogLevel = watcher.loaded.LogLevel
    /\ config.LogFormat = watcher.loaded.LogFormat
    /\ config.LogPath = watcher.loaded.LogPath

CompleteTables == {Unmarshal(f.text).Endpoints : f \in {FileA, FileB}}

\* C14: the list GetEndpoints copies is the complete endpoint list of one
\* configuration that was loaded, also while a reload is under way.
C14_CompleteTable ==
    request.pc = "runlock" => (request.got \in CompleteTables /\ request.got = endpoints)

\* GetEndpoints has copied the new table while the watcher waits for the lock
C14_Witness ==
    /\ request.pc = "runlock"
    /\ watcher.pc = "lock"
    /\ tally.reloads > 0
    /\ watcher.loaded.Endpoints # request.got

\* C15: within one HandleRequest call, the loop over the file servers, the loop
\* over the API endpoints and the parameter index refer to the same route table.
C15_OneTablePerRequest ==
    Len(request.tables) = 2 =>
        /\ request.tables[1] = request.tables[2]
        /\ pathParams = NewPathParams(request.tables[1])

\* the event the watcher is about to read is a write of the configuration file
WriteOfConfigNext ==
    /\ events # <<>>
    /\ Head(events).name = "config"
    /\ Head(events).op = "write"

\* C25: the watcher invokes reload only on reading an event whose name is the
\* configuration file's path and whose operation includes a write; events of
\* other files and non-write events of the configuration file never invoke it.
C25_ReloadOnlyOnConfigWrite ==
    [][
        /\ (watcher'.pc = "reload" /\ watcher.pc # "reload") =>
              (WriteOfConfigNext /\ events' = Tail(events))
        /\ (watcher.pc = "select" /\ events # <<>> /\ events' = Tail(events)
              /\ ~WriteOfConfigNext) =>
              (watcher' = watcher /\ config' = config /\ endpoints' = endpoints)
    ]_vars

\* of two events read, the first was passed over and the second invoked reload
C25_Witness ==
    /\ tally.events = 2
    /\ events = <<>>
    /\ watcher.pc = "reload"
    /\ tally.reloads = 0
    /\ tally.failed = 0

\* C29: when a reload fails inside the watcher, the watcher goes back to
\* waiting for events with the active configuration as it was, and a later
\* write event of the configuration file starts a new reload of the file.
C29_WatcherSurvivesFailure ==
    [][
        /\ (watcher.pc = "returned" /\ watcher.err # "nil" /\ watcher' # watcher) =>
              /\ watcher'.pc = "select"
              /\ config' = config /\ endpoints' = endpoints
              /\ reloadCh' = reloadCh
        /\ (tally.failed > 0 /\ watcher.pc = "select" /\ WriteOfConfigNext
              /\ events' = Tail(events)) => watcher'.pc = "reload"
        /\ (tally.failed > 0 /\ watcher.pc = "reload" /\ watcher' # watcher) =>
              /\ watcher'.pc \in {"returned", "lock"}
              /\ watcher'.pc = "lock" <=> ~Rejected(file, disk)
    ]_vars

\* after a failed reload the next write of the configuration file is being
\* loaded, the first configuration still active
C29_Witness ==
    /\ tally.failed = 1
    /\ watcher.pc = "lock"
    /\ config = Settings(LoadConfig(FileA, ExistingFiles).config)
    /\ endpoints = FileA.text["endpoints"]
    /\ watcher.loaded.Endpoints = FileB.text["endpoints"]

\* every successful reload has been notified and its cache clear has completed
ClearCompleted ==
    /\ tally.clears > 0
    /\ tally.clears = tally.sent
    /\ reloadCh = 0
    /\ watcher.pc = "select"

\* the bytes of the entry of key k are what the active table answers the
\* request of that key with
ResolvedAgainstActive(k) ==
    \E out \in handle(endpoints, pathParams, <<>>, now, disk, CacheTTL, k[1], k[3]) :
        /\ out.resp.kind = "json"
        /\ out.resp.body = cache[k].content

\* C35: once the cache clear of a successful reload has completed, every entry
\* of the cache holds bytes resolved against the active route table; no request
\* that started before the reload leaves an entry produced from the superseded
\* table.
C35_NoStaleEntryAfterClear ==
    ClearCompleted => \A k \in DOMAIN cache : ResolvedAgainstActive(k)

\* C36: after a successful reload the watcher always returns to waiting for
\* file events: the send of the reload notification can always proceed, also
\* while earlier notifications have not been consumed.
C36_SendNeverBlocks ==
    watcher.pc = "send" => reloadCh < ReloadChCap

-----------------------------------------------------------------------------
(* SpecLoad: configuration files of every shape within the bounds are        *)
(* written and reloaded one after the other (Config.Reload as a whole, no    *)
(* request in flight).                                                       *)

\* the endpoints a written file may list: two routes for GET /b that differ in
\* status and fixture, a file server on an existing folder and one on a folder
\* that does not exist, a route whose fixture does not exist, a route with a
\* blank path, and a route for POST /b that names neither fixture nor folder
ValidatePool ==
    { Endpoint("GET", 201, <<"/", "b">>, "b.json", ""),
      Endpoint("GET", 200, <<"/", "b">>, "c.json", ""),
      Endpoint("", 0, <<"/", "b">>, "", "static"),
      Endpoint("", 0, <<"/", "b">>, "", "nodir"),
      Endpoint("GET", 200, <<"/", "b">>, "gone.json", ""),
      Endpoint("GET", 200, <<>>, "b.json", ""),
      Endpoint("POST", 200, <<"/", "b">>, "", "") }

\* the text that gives host, logPath, the endpoints of FileA and, of the keys
\* ks, the port p, the log level l and the log format f
SettingText(ks, p, l, f) ==
    [k \in ks \cup {"host", "logPath", "endpoints"} |->
        CASE k = "host" -> "h"
          [] k = "port" -> p
          [] k = "logLevel" -> l
          [] k = "logFormat" -> f
          [] k = "logPath" -> "log"
          [] k = "endpoints" -> FileA.text["endpoints"]]

\* the texts that give some of the settings that have defaults
SettingTexts ==
    { SettingText(ks, p, l, f) :
        ks \in SUBSET {"port", "logLevel", "logFormat"},
        p \in {0, 8080}, l \in {"", "debug"}, f \in {"", "json"} }

\* the texts that give endpoints only
EndpointTexts == { [k \in {"endpoints"} |-> eps] : eps \in SeqsUpTo(ValidatePool, MaxEndpoints) }

LoadFiles ==
    {JsonFile(text) : text \in SettingTexts \cup EndpointTexts}
    \cup {FileMalformed, FileMissing}

InitLoad ==
    /\ endpoints = LoadConfig(FileA, ExistingFiles).config.Endpoints
    /\ pathParams = NewPathParams(LoadConfig(FileA, ExistingFiles).config.Endpoints)
    /\ config = Settings(LoadConfig(FileA, ExistingFiles).config)
    /\ file = FileA
    /\ cache = <<>>
    /\ now = 0
    /\ disk = ExistingFiles
    /\ resp = NoResponse
    /\ fnArgs = <<>>
    /\ fnRet = [err |-> "none", config |-> NoConfig]
    /\ fnDone = TRUE
    /\ hist = <<>>
    /\ NoGoroutines
    /\ cfgMu = ConfigUnlocked
    /\ events = <<>>
    /\ watcher = WatcherIdle
    /\ reloadCh = 0
    /\ request = RequestIdle
    /\ tally = NoTally

\* the configuration file is rewritten or removed
WriteFile ==
    /\ fnDone
    /\ file' \in LoadFiles
    /\ fnArgs' = <<>>
    /\ fnRet' = [err |-> "none", config |-> NoConfig]
    /\ fnDone' = FALSE
    /\ UNCHANGED <<endpoints, pathParams, cache, now, disk, resp, hist, lockVars,
                   config, cfgMu, events, watcher, reloadCh, request, tally>>

\* Config.Reload(path)
Reload ==
    /\ ~fnDone
    /\ LET loaded == LoadConfig(file, disk)
       IN  /\ fnArgs' = file
           /\ fnRet' = loaded
           /\ IF loaded.err # "nil"
              THEN UNCHANGED <<endpoints, config>>
              ELSE /\ config' = reloadAssign(endpoints, loaded.config).config
                   /\ endpoints' = reloadAssign(endpoints, loaded.config).endpoints
    /\ fnDone' = TRUE
    /\ UNCHANGED <<pathParams, cache, now, disk, resp, hist, lockVars,
                   file, cfgMu, events, watcher, reloadCh, request, tally>>

NextLoad == WriteFile \/ Reload

SpecLoad == InitLoad /\ [][NextLoad]_vars

\* a Reload of a file that parsed has returned
Loaded == fnDone /\ fnArgs # <<>> /\ fnArgs.state = "json"

\* the endpoint list the loaded file gives
GivenEndpoints == Unmarshal(fnArgs.text).Endpoints

IsFileMount(ep) == ep.Folder # ""
IsApiRoute(ep) == ep.Folder = ""

BlankPathIn(eps) == \E i \in DOMAIN eps : eps[i].Path = <<>>

DuplicateIn(eps) ==
    \E i, j \in DOMAIN eps :
        /\ i < j
        /\ IsApiRoute(eps[i]) /\ IsApiRoute(eps[j])
        /\ eps[i].Path = eps[j].Path /\ eps[i].Method = eps[j].Method

FixtureMissingIn(eps, files) ==
    \E i \in DOMAIN eps : IsApiRoute(eps[i]) /\ eps[i].JsonPath \notin DOMAIN files

FolderMissingIn(eps, files) ==
    \E i \in DOMAIN eps : IsFileMount(eps[i]) /\ eps[i].Folder \notin DOMAIN files

\* C16: validation fails with NoEndpoints for an empty list, EmptyPath for a
\* blank path, DuplicateEndpoint for a path+method appearing twice among the API
\* routes, FixtureNotFound for an API route whose fixture file does not exist,
\* FolderNotFound for a file server whose folder does not exist (each error only
\* where its condition holds), and succeeds exactly when none of these holds.
C16_ValidateErrors ==
    Loaded =>
        /\ fnRet.err = "nil" <=>
              ~ \/ Len(GivenEndpoints) = 0
                \/ BlankPathIn(GivenEndpoints)
                \/ DuplicateIn(GivenEndpoints)
                \/ FixtureMissingIn(GivenEndpoints, disk)
                \/ FolderMissingIn(GivenEndpoints, disk)
        /\ fnRet.err = "ErrNoEndpoints" => Len(GivenEndpoints) = 0
        /\ fnRet.err = "ErrEmptyPath" => BlankPathIn(GivenEndpoints)
        /\ fnRet.err = "ErrDuplicateEndpoint" => DuplicateIn(GivenEndpoints)
        /\ fnRet.err = "ErrJSONFileNotFound" => FixtureMissingIn(GivenEndpoints, disk)
        /\ fnRet.err = "ErrFolderNotFound" => FolderMissingIn(GivenEndpoints, disk)

\* C17: the active table never holds two API routes with the same path and
\* method, and a configuration declaring such a pair is rejected by load with
\* DuplicateEndpoint.
C17_AsStated ==
    /\ ~DuplicateIn(endpoints)
    /\ (Loaded /\ DuplicateIn(GivenEndpoints)) => fnRet.err = "ErrDuplicateEndpoint"

\* the error of an endpoint that precedes the second route of a duplicated pair
\* (or of the first of the pair) may come first
PreemptingErrors == {"ErrEmptyPath", "ErrFolderNotFound", "ErrJSONFileNotFound"}

\* C17: after any sequence of loads and reloads the active table never holds two
\* API routes with the same path and method; a configuration declaring such a
\* pair is rejected by load, with DuplicateEndpoint or with the error of an
\* earlier failing check, and does not become active.
C17_NoDuplicateActive ==
    /\ ~DuplicateIn(endpoints)
    /\ (Loaded /\ DuplicateIn(GivenEndpoints)) =>
          /\ fnRet.err \in {"ErrDuplicateEndpoint"} \cup PreemptingErrors
          /\ fnRet.config = NoConfig
          /\ endpoints # GivenEndpoints
    /\ (Loaded /\ DuplicateIn(GivenEndpoints)
          /\ ~BlankPathIn(GivenEndpoints)
          /\ ~FixtureMissingIn(GivenEndpoints, disk)
          /\ ~FolderMissingIn(GivenEndpoints, disk)) => fnRet.err = "ErrDuplicateEndpoint"

\* a reloaded file declared GET /b twice and was rejected for it
C17_Witness ==
    /\ Loaded
    /\ DuplicateIn(GivenEndpoints)
    /\ fnRet.err = "ErrDuplicateEndpoint"
    /\ endpoints = FileA.text["endpoints"]

\* the check that endpoint i of the list fails, the endpoints before it having
\* been walked
FailureAt(eps, i, files) ==
    IF eps[i].Path = <<>> THEN "ErrEmptyPath"
    ELSE IF IsFileMount(eps[i])
         THEN IF eps[i].Folder \notin DOMAIN files THEN "ErrFolderNotFound" ELSE "none"
    ELSE IF \E j \in 1..(i - 1) :
                /\ IsApiRoute(eps[j])
                /\ eps[j].Path = eps[i].Path /\ eps[j].Method = eps[i].Method
         THEN "ErrDuplicateEndpoint"
    ELSE IF eps[i].JsonPath # "" /\ eps[i].JsonPath \notin DOMAIN files
         THEN "ErrJSONFileNotFound"
    ELSE "none"

\* the endpoints of the list that fail a check
Failing(eps, files) == {i \in DOMAIN eps : FailureAt(eps, i, files) # "none"}

\* the least of a non-empty set of positions
First(S) == CHOOSE i \in S : \A j \in S : i <= j

\* C27: validation walks the endpoints in list order and stops at the first
\* one that fails: the error returned is the one of the earliest failing
\* endpoint of the list, whatever later endpoints would raise.
C27_FirstFailureWins ==
    (Loaded /\ Len(GivenEndpoints) > 0) =>
        IF Failing(GivenEndpoints, disk) = {}
        THEN fnRet.err = "nil"
        ELSE fnRet.err = FailureAt(GivenEndpoints, First(Failing(GivenEndpoints, disk)), disk)

\* a list whose first endpoint lacks its fixture and whose second has a blank
\* path was rejected for the fixture
C27_Witness ==
    /\ Loaded
    /\ Len(GivenEndpoints) = 2
    /\ FailureAt(GivenEndpoints, 1, disk) = "ErrJSONFileNotFound"
    /\ FailureAt(GivenEndpoints, 2, disk) = "ErrEmptyPath"
    /\ fnRet.err = "ErrJSONFileNotFound"

\* C18: every endpoint of the active table is exactly one of an API route with a
\* fixture path and no folder, or a file server with a folder and no fixture path.
C18_ExactlyOneKind ==
    \A i \in DOMAIN endpoints :
        \/ endpoints[i].JsonPath # "" /\ endpoints[i].Folder = ""
        \/ endpoints[i].Folder # "" /\ endpoints[i].JsonPath = ""

\* the value the loaded file gives to field k, or zero when it gives none
Given(k, zero) == IF k \in DOMAIN fnArgs.text THEN fnArgs.text[k] ELSE zero

\* C19: load returns the configured values, with port 3000 for a port absent or
\* 0, logLevel "info" and logFormat "text" for an absent or empty one, and
\* returns no configuration when reading, parsing or validation fails.
C19_Defaults ==
    (fnDone /\ fnArgs # <<>>) =>
        /\ fnRet.err # "nil" <=> Rejected(fnArgs, disk)
        /\ fnRet.err # "nil" => fnRet.config = NoConfig
        /\ fnRet.err = "nil" =>
              /\ fnRet.config.Port = (IF Given("port", 0) = 0 THEN 3000 ELSE Given("port", 0))
              /\ fnRet.config.LogLevel =
                    (IF Given("logLevel", "") = "" THEN "info" ELSE Given("logLevel", ""))
              /\ fnRet.config.LogFormat =
                    (IF Given("logFormat", "") = "" THEN "text" ELSE Given("logFormat", ""))
              /\ fnRet.config.Host = Given("host", "")
              /\ fnRet.config.LogPath = Given("logPath", "")
              /\ fnRet.config.Endpoints = Given("endpoints", <<>>)

\* a file without port and log format, with a log level of its own, has loaded
C19_Witness ==
    /\ fnDone /\ fnArgs # <<>>
    /\ fnRet.err = "nil"
    /\ DOMAIN fnArgs.text = {"host", "logPath", "logLevel", "endpoints"}
    /\ fnRet.config.LogLevel = "debug"
    /\ fnRet.config.Port = 3000
    /\ config.Port = 3000

-----------------------------------------------------------------------------
(* SpecApply: the server started on FileA answers requests while the         *)
(* configuration file is rewritten and reloaded.                             *)

\* a configuration whose only route is parametrized
FileParam ==
    JsonFile([k \in {"endpoints"} |->
        <<Endpoint("GET", 200, <<"/", ":", "i">>, "p.json", "")>>])

\* a configuration that adds the parametrized route after the route of FileA
FileBoth ==
    JsonFile([k \in {"endpoints"} |->
        <<Endpoint("GET", 201, <<"/", "b">>, "b.json", ""),
          Endpoint("GET", 200, <<"/", ":", "i">>, "p.json", "")>>])

ApplyFiles == {FileA, FileB, FileParam, FileBoth, FileDuplicate}

ApplyPaths == {<<"/", "b">>, <<"/", "c">>, <<"/", ":", "i">>}

\* the configuration file is rewritten
WriteConfig ==
    /\ fnDone
    /\ file' \in ApplyFiles
    /\ fnArgs' = <<>>
    /\ fnRet' = [err |-> "none", config |-> NoConfig]
    /\ fnDone' = FALSE
    /\ UNCHANGED <<endpoints, pathParams, cache, now, disk, resp, hist, lockVars,
                   config, cfgMu, events, watcher, reloadCh, request, tally>>

\* Server.HandleRequest for one request, no reload under way
ApplyRequest ==
    /\ fnDone
    /\ \E method \in ReloadMethods, path \in ApplyPaths :
          \E out \in handle(endpoints, pathParams, cache, now, disk, CacheTTL,
                            method, path) :
              /\ resp' = out.resp
              /\ cache' = out.cache
    /\ UNCHANGED <<endpoints, pathParams, now, disk, fnVars>>

NextApply == WriteConfig \/ Reload \/ ApplyRequest

SpecApply == InitLoad /\ [][NextApply]_vars

\* the last reload succeeded and made a table with a parametrized route active
ReloadedWithParams ==
    /\ fnDone
    /\ fnArgs # <<>>
    /\ fnRet.err = "nil"
    /\ NewPathParams(endpoints) # <<>>

\* C24: after a successful reload that adds a route whose pattern has `:name`
\* segments, a request is answered exactly as a server started on the new
\* configuration answers it: matched to the new route and served with bindings.
C24_AsIfRestarted ==
    [][(ReloadedWithParams /\ ApplyRequest) =>
          \E out \in handle(endpoints, NewPathParams(endpoints), cache, now, disk, CacheTTL,
                            resp'.method, resp'.path) :
              /\ resp' = out.resp
              /\ cache' = out.cache]_vars

-----------------------------------------------------------------------------
(* SpecCopy: the slices behind Config.Endpoints and behind the lists that    *)
(* GetEndpoints returns. hist is the memory, one endpoint array per slice;   *)
(* fnArgs is the array c.Endpoints refers to, fnRet the array the last list  *)
(* returned refers to (0: none returned yet); endpoints is the active table. *)

MaxSlices == 3

InitCopy ==
    \E cfg \in Accepted(FixturePool) :
        /\ endpoints = cfg
        /\ pathParams = NewPathParams(cfg)
        /\ cache = <<>>
        /\ now = 0
        /\ disk = ExistingFiles
        /\ resp = NoResponse
        /\ fnArgs = 1
        /\ fnRet = 0
        /\ fnDone = FALSE
        /\ hist = <<cfg>>
        /\ NoGoroutines
        /\ NoWatcher

\* a GetEndpoints that returns c.Endpoints itself
getEndpointsShared(memory, active) == [memory |-> memory, ref |-> active]

\* Config.GetEndpoints: make a new array, copy into it, return it
getEndpoints(memory, active) ==
    [memory |-> Append(memory, copyInto(Len(memory[active]), memory[active])),
     ref |-> Len(memory) + 1]

\* a call of Config.GetEndpoints
GetEndpoints ==
    /\ Len(hist) < MaxSlices
    /\ hist' = getEndpoints(hist, fnArgs).memory
    /\ fnRet' = getEndpoints(hist, fnArgs).ref
    /\ UNCHANGED <<endpoints, pathParams, cache, now, disk, resp, fnArgs, fnDone,
                   lockVars, reloadVars>>

\* Config.Reload: c.Endpoints = newConfig.Endpoints
ReloadEndpoints ==
    /\ Len(hist) < MaxSlices
    /\ \E cfg \in Accepted(FixturePool) :
          /\ hist' = Append(hist, cfg)
          /\ endpoints' = cfg
    /\ fnArgs' = Len(hist) + 1
    /\ UNCHANGED <<pathParams, cache, now, disk, resp, fnRet, fnDone, lockVars, reloadVars>>

\* the caller of GetEndpoints assigns to an element of the list it got
ModifyReturned ==
    /\ fnRet # 0
    /\ \E i \in DOMAIN hist[fnRet], ep \in FixturePool \cup {ZeroEndpoint} :
          /\ hist' = [hist EXCEPT ![fnRet][i] = ep]
          /\ endpoints' = hist'[fnArgs]
    /\ UNCHANGED <<pathParams, cache, now, disk, resp, fnArgs, fnRet, fnDone,
                   lockVars, reloadVars>>

NextCopy == GetEndpoints \/ ReloadEndpoints \/ ModifyReturned

SpecCopy == InitCopy /\ [][NextCopy]_vars

\* C28: the list GetEndpoints returns is a copy of its own: it holds the
\* active table of the moment, a later reload does not change a list already
\* returned, and changing a returned list does not change the active table.
C28_PrivateCopy ==
    [][
        /\ fnRet' # fnRet => (hist'[fnRet'] = endpoints /\ endpoints' = endpoints)
        /\ (fnArgs' # fnArgs /\ fnRet # 0) => hist'[fnRet] = hist[fnRet]
        /\ (fnRet # 0 /\ fnRet' = fnRet /\ hist'[fnRet] # hist[fnRet]) =>
              (endpoints' = endpoints /\ hist'[fnArgs] = hist[fnArgs])
    ]_vars

\* a list returned before a reload still holds the table it was copied from,
\* the active table being another one
C28_Witness ==
    /\ fnRet = 2
    /\ fnArgs = 3
    /\ hist[2] = hist[1]
    /\ endpoints = hist[3]
    /\ endpoints # hist[2]

-----------------------------------------------------------------------------
(* Dispatch: what the route table says about the last request *)

Answered == resp.kind # "none"

Min(S) == CHOOSE x \in S : \A y \in S : x <= y

\* the file server endpoints whose path is a prefix of the request path
Mounts(path) ==
    {i \in 1..Len(endpoints) : endpoints[i].Folder # "" /\ HasPrefix(path, endpoints[i].Path)}

\* the API endpoints whose pattern matches the request path
PathRoutes(path) ==
    {i \in 1..Len(endpoints) :
        endpoints[i].Folder = "" /\ matchPath(pathParams, endpoints[i].Path, path).matched}

\* those of them that carry the request method
Routes(method, path) == {i \in PathRoutes(path) : endpoints[i].Method = method}

\* the API endpoints up to position k, in configuration order
ApiUpTo(k) ==
    SelectSeq([i \in 1..Len(endpoints) |-> i], LAMBDA i : endpoints[i].Folder = "" /\ i <= k)

DispatchOrder ==
    IF Mounts(resp.path) # {}
    THEN /\ resp.kind = "static"
         /\ resp.served = Min(Mounts(resp.path))
         /\ resp.consulted = <<>>
    ELSE IF Routes(resp.method, resp.path) # {}
    THEN /\ resp.kind \in {"json", "error"}
         /\ resp.served = Min(Routes(resp.method, resp.path))
         /\ resp.consulted = ApiUpTo(resp.served)
    ELSE /\ resp.kind = "notfound"
         /\ resp.served = 0
         /\ resp.consulted = ApiUpTo(Len(endpoints))

\* C1 as stated: every request is served by the first file server endpoint whose
\* path is a prefix of the request path, otherwise by the first API endpoint, in
\* configuration order, whose pattern matches and whose method is the request's;
\* no later endpoint is consulted.
C1_AsStated == Answered => DispatchOrder

\* C1 (amended): every request whose method is not OPTIONS is served by the first
\* file server endpoint whose path is a prefix of the request path, otherwise by
\* the first API endpoint, in configuration order, whose pattern matches and whose
\* method is the request's; no later endpoint is consulted, and no endpoint serves
\* the request when none applies.
C1_MountsThenFirstRoute == (Answered /\ resp.method # "OPTIONS") => DispatchOrder

\* a request that an earlier API endpoint did not take (wrong method or path) was
\* served by a later one, no file server endpoint applying
C1_Witness ==
    /\ Answered
    /\ resp.method # "OPTIONS"
    /\ Mounts(resp.path) = {}
    /\ resp.kind = "json"
    /\ resp.served = 2
    /\ resp.consulted = <<1, 2>>

NotFoundAnswer(r) == r.status = 404 /\ r.body = NotFoundBody /\ r.kind = "notfound"

\* the request's path matches an API pattern, but no path-matching API endpoint
\* carries its method, and no file server endpoint applies
MethodMismatch(r) ==
    /\ r.kind # "none"
    /\ Mounts(r.path) = {}
    /\ PathRoutes(r.path) # {}
    /\ Routes(r.method, r.path) = {}

\* C3 as stated: a request that no endpoint serves gets 404 with body
\* {"error": "Not found"}; so does a request whose path matches an API pattern but
\* whose method differs from every path-matching API endpoint's, and it creates no
\* cache entry.
C3_AsStated ==
    [][/\ (resp'.kind # "none" /\ resp'.served = 0) => NotFoundAnswer(resp')
       /\ MethodMismatch(resp') => (NotFoundAnswer(resp') /\ cache' = cache)]_vars

\* C3 (amended): a request with a method other than OPTIONS that no endpoint serves
\* gets 404 with body {"error": "Not found"}; so does such a request whose path
\* matches an API pattern but whose method differs from every path-matching API
\* endpoint's, and it creates no cache entry.
C3_UnservedIsNotFound ==
    [][resp'.method # "OPTIONS" =>
          /\ (resp'.kind # "none" /\ resp'.served = 0) => NotFoundAnswer(resp')
          /\ MethodMismatch(resp') => (NotFoundAnswer(resp') /\ cache' = cache)]_vars

\* a POST whose path matches a GET route only was answered 404
C3_Witness ==
    /\ MethodMismatch(resp)
    /\ resp.method = "POST"
    /\ resp.status = 404
    /\ \E i \in PathRoutes(resp.path) : endpoints[i].Method = "GET"

\* the last request carries the method and exactly the path of API endpoint i
ExactRequestFor(i) ==
    /\ Answered
    /\ endpoints[i].Folder = ""
    /\ resp.method = endpoints[i].Method
    /\ resp.path = endpoints[i].Path

\* the response carries endpoint i's status and its fixture's bytes
RouteAnswer(i) ==
    /\ resp.kind = "json"
    /\ resp.served = i
    /\ resp.status = endpoints[i].Status
    /\ endpoints[i].JsonPath \in DOMAIN disk
    /\ resp.body = disk[endpoints[i].JsonPath]

C34_OptionsShortCircuit ==
    [][
        (HandleRequest /\ resp'.method = "OPTIONS") =>
            /\ resp'.kind = "options"
            /\ resp'.status = 200
            /\ resp'.body = <<>>
            /\ resp'.served = 0
            /\ resp'.consulted = <<>>
            /\ ~resp'.fromCache
            /\ cache' = cache
            /\ CacheKey("OPTIONS", resp'.path) \notin DOMAIN cache'
    ]_vars

\* an OPTIONS request was answered 200 on a table with a file server endpoint
\* whose path is a prefix of the request's path and an API endpoint of method
\* OPTIONS whose pattern the path matches, a GET of the same path being cached
C34_Witness ==
    /\ resp.method = "OPTIONS"
    /\ resp.status = 200
    /\ resp.body = <<>>
    /\ \E i \in DOMAIN endpoints :
          /\ endpoints[i].Folder = ""
          /\ endpoints[i].Method = "OPTIONS"
          /\ matchPath(pathParams, endpoints[i].Path, resp.path).matched
    /\ \/ \E j \in DOMAIN endpoints :
              endpoints[j].Folder # "" /\ HasPrefix(resp.path, endpoints[j].Path)
       \/ CacheKey("GET", resp.path) \in DOMAIN cache

-----------------------------------------------------------------------------
(* SpecMatch: matchPath applied to every pattern and request path over      *)
(* MatchChars within the bounds; the index is the one NewServer builds for  *)
(* a table whose only API endpoint carries the pattern.                     *)

MatchChars == {"/", ":", "a"}

IdleServer ==
    /\ endpoints = <<>>
    /\ pathParams = <<>>
    /\ cache = <<>>
    /\ now = 0
    /\ disk = <<>>
    /\ resp = <<>>

serverVars == <<endpoints, pathParams, cache, now, disk, resp>>

IndexFor(pattern) == NewPathParams(<<[Path |-> pattern, Folder |-> ""]>>)

InitMatch ==
    /\ IdleServer
    /\ fnArgs = <<>>
    /\ fnRet = NoMatch
    /\ fnDone = FALSE
    /\ hist = <<>>
    /\ NoGoroutines
    /\ NoWatcher

CallMatchPath ==
    /\ ~fnDone
    /\ \E pattern \in SeqsUpTo(MatchChars, MaxPatLen), path \in SeqsUpTo(MatchChars, MaxPathLen) :
          /\ fnArgs' = [pattern |-> pattern, path |-> path]
          /\ fnRet' = matchPath(IndexFor(pattern), pattern, path)
    /\ fnDone' = TRUE
    /\ UNCHANGED <<serverVars, hist, lockVars, reloadVars>>

NextMatch == CallMatchPath

SpecMatch == InitMatch /\ [][NextMatch]_vars

\* a pattern part that is a parameter: matchPath's strings.HasPrefix(part, ":")
IsParam(part) == HasPrefix(part, <<":">>)

\* the request path has the pattern's shape: same number of parts, literal parts equal
SameShape(patternParts, pathParts) ==
    /\ Len(patternParts) = Len(pathParts)
    /\ \A i \in 1..Len(patternParts) :
          ~IsParam(patternParts[i]) => patternParts[i] = pathParts[i]

HasParamPart(patternParts) == \E i \in 1..Len(patternParts) : IsParam(patternParts[i])

\* the last position of the pattern whose parameter is named as the one at position i
LastOf(patternParts, i) ==
    CHOOSE j \in 1..Len(patternParts) :
        /\ patternParts[j] = patternParts[i]
        /\ \A k \in (j + 1)..Len(patternParts) : patternParts[k] # patternParts[i]

WrongCountRejected ==
    LET pp == Split(fnArgs.pattern, "/")
        qp == Split(fnArgs.path, "/")
    IN  (Len(pp) # Len(qp) /\ fnArgs.pattern # fnArgs.path) => ~fnRet.matched

\* C2 as stated: for a registered pattern with parameter segments, every request
\* path of the pattern's shape matches and binds every name to the path segment at
\* the name's position; a path with another segment count (and not equal to the
\* pattern) does not match.
C2_AsStated ==
    fnDone =>
        LET pp == Split(fnArgs.pattern, "/")
            qp == Split(fnArgs.path, "/")
        IN  /\ (fnArgs.pattern \in DOMAIN IndexFor(fnArgs.pattern) /\ HasParamPart(pp)
                    /\ SameShape(pp, qp))
                => /\ fnRet.matched
                   /\ \A i \in 1..Len(pp) : IsParam(pp[i]) =>
                         /\ From(pp[i], 2) \in DOMAIN fnRet.params
                         /\ fnRet.params[From(pp[i], 2)] = qp[i]
            /\ WrongCountRejected

\* C2 (amended): for a registered pattern with parameter segments, every request
\* path of the pattern's shape that is not string-equal to the pattern matches and
\* binds every name to the path segment at the last position carrying that name;
\* a path with another segment count (and not equal to the pattern) does not match.
C2_MatchBindsSegments ==
    fnDone =>
        LET pp == Split(fnArgs.pattern, "/")
            qp == Split(fnArgs.path, "/")
        IN  /\ (fnArgs.pattern \in DOMAIN IndexFor(fnArgs.pattern) /\ HasParamPart(pp)
                    /\ SameShape(pp, qp) /\ fnArgs.pattern # fnArgs.path)
                => /\ fnRet.matched
                   /\ ~fnRet.nil
                   /\ DOMAIN fnRet.params = {From(pp[i], 2) : i \in {j \in 1..Len(pp) : IsParam(pp[j])}}
                   /\ \A i \in 1..Len(pp) : IsParam(pp[i]) =>
                         fnRet.params[From(pp[i], 2)] = qp[LastOf(pp, i)]
            /\ WrongCountRejected

\* a pattern with a literal part and a named parameter matched a path of its shape
C2_Witness ==
    /\ fnDone
    /\ fnRet.matched
    /\ fnArgs.pattern = <<"a", "/", ":", "a">>
    /\ fnArgs.path = <<"a", "/", "a", "a">>
    /\ fnRet.params[<<"a">>] = <<"a", "a">>

\* C26: whenever the pattern equals the request path matchPath returns
\* matched=true with no bindings, also for a pattern with `:name` segments; a
\* pattern absent from the index of parametrized patterns matches by exact
\* equality only.
C26_ExactFirst ==
    fnDone =>
        /\ fnArgs.pattern = fnArgs.path =>
              (fnRet.matched /\ fnRet.nil /\ DOMAIN fnRet.params = {})
        /\ fnArgs.pattern \notin DOMAIN IndexFor(fnArgs.pattern) =>
              (fnRet.matched <=> fnArgs.pattern = fnArgs.path)

\* the literal request for a parametrized pattern matched without bindings
C26_Witness ==
    /\ fnDone
    /\ fnArgs.pattern = <<"/", ":", "a">>
    /\ fnArgs.path = <<"/", ":", "a">>
    /\ fnArgs.pattern \in DOMAIN IndexFor(fnArgs.pattern)
    /\ fnRet = MatchResult(TRUE, TRUE, <<>>)

-----------------------------------------------------------------------------
(* The middleware. resp is the http.ResponseWriter w a handler is given: the  *)
(* status it has committed (0: none yet), the chunks of body written and the  *)
(* codes its WriteHeader was called with; hist is the sequence of calls made. *)

StatusOK == 200
StatusRequestTimeout == 408
StatusInternalServerError == 500

\* a response writer nothing was written to
NewRecorder == [status |-> 0, body |-> <<>>, codes |-> <<>>]

\* http.ResponseWriter.WriteHeader: the first status code is committed, a later
\* call is superfluous
writeHeader(w, code) ==
    [w EXCEPT !.status = IF w.status = 0 THEN code ELSE w.status,
              !.codes = Append(w.codes, code)]

\* http.ResponseWriter.Write: commits status 200 if no status is committed yet
\* and appends the bytes
write(w, b) ==
    [w EXCEPT !.status = IF w.status = 0 THEN StatusOK ELSE w.status,
              !.body = Append(w.body, b)]

-----------------------------------------------------------------------------
(* SpecWriter: the responseWriter of the Logger middleware, WriteHeader and  *)
(* Write called on it in any order. fnArgs is the responseWriter struct.     *)

MaxCalls == 3

StatusCodes == {200, 201, 404}
Chunks == {"a", "b"}

\* Logger: rw := &responseWriter{ResponseWriter: w, statusCode: http.StatusOK}
InitWriter ==
    /\ endpoints = <<>>
    /\ pathParams = <<>>
    /\ cache = <<>>
    /\ now = 0
    /\ disk = <<>>
    /\ resp = NewRecorder
    /\ fnArgs = [statusCode |-> StatusOK, written |-> FALSE]
    /\ fnRet = NoMatch
    /\ fnDone = FALSE
    /\ hist = <<>>
    /\ NoGoroutines
    /\ NoWatcher

writerRest == <<endpoints, pathParams, cache, now, disk, fnRet, fnDone, lockVars, reloadVars>>

\* a WriteHeader that records and forwards every call
rwWriteHeaderUnguarded(rw, w, code) ==
    [rw |-> [statusCode |-> code, written |-> TRUE], w |-> writeHeader(w, code)]

\* responseWriter.WriteHeader: the struct and the underlying writer afterwards
rwWriteHeader(rw, w, code) ==
    IF ~rw.written
    THEN [rw |-> [statusCode |-> code, written |-> TRUE], w |-> writeHeader(w, code)]
    ELSE [rw |-> rw, w |-> w]

\* responseWriter.Write: the struct and the underlying writer afterwards
rwWrite(rw, w, b) ==
    [rw |-> IF ~rw.written THEN [statusCode |-> StatusOK, written |-> TRUE] ELSE rw,
     w |-> write(w, b)]

\* a call of rw.WriteHeader(code)
WriteHeader ==
    /\ Len(hist) < MaxCalls
    /\ \E code \in StatusCodes :
          /\ fnArgs' = rwWriteHeader(fnArgs, resp, code).rw
          /\ resp' = rwWriteHeader(fnArgs, resp, code).w
          /\ hist' = Append(hist, [op |-> "WriteHeader", code |-> code])
    /\ UNCHANGED writerRest

\* a call of rw.Write(b)
Write ==
    /\ Len(hist) < MaxCalls
    /\ \E b \in Chunks :
          /\ fnArgs' = rwWrite(fnArgs, resp, b).rw
          /\ resp' = rwWrite(fnArgs, resp, b).w
          /\ hist' = Append(hist, [op |-> "Write", code |-> 0])
    /\ UNCHANGED writerRest

NextWriter == WriteHeader \/ Write

SpecWriter == InitWriter /\ [][NextWriter]_vars

\* the first call made was a WriteHeader
HeaderFirst == hist # <<>> /\ hist[1].op = "WriteHeader"

\* C40: after any sequence of WriteHeader and Write calls the recorded status
\* is the code of the first WriteHeader call if it came before any Write,
\* otherwise 200; a later WriteHeader call neither changes the recorded status
\* nor reaches the underlying writer.
C40_FirstStatusOnly ==
    /\ fnArgs.statusCode = IF HeaderFirst THEN hist[1].code ELSE StatusOK
    /\ resp.codes = IF HeaderFirst THEN <<hist[1].code>> ELSE <<>>
    /\ fnArgs.written <=> hist # <<>>
    /\ resp.status \in {0, fnArgs.statusCode}

\* WriteHeader(201), then Write, then WriteHeader(404): 201 is recorded and
\* the underlying writer has seen one WriteHeader call
C40_Witness ==
    /\ Len(hist) = 3
    /\ hist[1] = [op |-> "WriteHeader", code |-> 201]
    /\ hist[2].op = "Write"
    /\ hist[3] = [op |-> "WriteHeader", code |-> 404]
    /\ fnArgs.statusCode = 201
    /\ resp.codes = <<201>>

-----------------------------------------------------------------------------
(* SpecRecovery: a handler wrapped by the Recovery middleware writes to w    *)
(* and then returns or panics. fnArgs is the position of the request and     *)
(* whether the handler panicked, hist the log, fatal a panic that reached    *)
(* the caller of the middleware.                                             *)

\* json.NewEncoder(w).Encode(map[string]string{"error": "internal server error"})
RecoveryBody == "{\"error\":\"internal server error\"}\n"

\* the entry log.Error("Panic recovered", ...) makes
PanicEntry == [level |-> "ERROR", message |-> "Panic recovered"]

InitRecovery ==
    /\ endpoints = <<>>
    /\ pathParams = <<>>
    /\ cache = <<>>
    /\ now = 0
    /\ disk = <<>>
    /\ resp = NewRecorder
    /\ fnArgs = [pc |-> "handler", panicked |-> FALSE]
    /\ fnRet = NoMatch
    /\ fnDone = FALSE
    /\ hist = <<>>
    /\ NoGoroutines
    /\ NoWatcher

recoveryRest == <<endpoints, pathParams, cache, now, disk, fnRet, fnDone, mu, calls, reloadVars>>

\* next.ServeHTTP(w, r): the handler calls w.WriteHeader
HandlerWriteHeader ==
    /\ fnArgs.pc = "handler"
    /\ Len(resp.codes) + Len(resp.body) < MaxCalls
    /\ \E code \in StatusCodes : resp' = writeHeader(resp, code)
    /\ UNCHANGED <<fnArgs, hist, fatal, recoveryRest>>

\* next.ServeHTTP(w, r): the handler calls w.Write
HandlerWrite ==
    /\ fnArgs.pc = "handler"
    /\ Len(resp.codes) + Len(resp.body) < MaxCalls
    /\ \E b \in Chunks : resp' = write(resp, b)
    /\ UNCHANGED <<fnArgs, hist, fatal, recoveryRest>>

\* next.ServeHTTP(w, r) returns; the deferred function finds recover() nil
HandlerReturn ==
    /\ fnArgs.pc = "handler"
    /\ fnArgs' = [fnArgs EXCEPT !.pc = "returned"]
    /\ UNCHANGED <<resp, hist, fatal, recoveryRest>>

\* the handler panics
HandlerPanic ==
    /\ fnArgs.pc = "handler"
    /\ fnArgs' = [pc |-> "deferred", panicked |-> TRUE]
    /\ UNCHANGED <<resp, hist, fatal, recoveryRest>>

\* the deferred function of Recovery for a panic: what it leaves in the log
\* and in the writer
recovered(log, w) ==
    [log |-> Append(log, PanicEntry),
     w |-> write(writeHeader(w, StatusInternalServerError), RecoveryBody)]

\* the deferred function of Recovery runs while the handler is panicking
Recover ==
    /\ fnArgs.pc = "deferred"
    /\ hist' = recovered(hist, resp).log
    /\ resp' = recovered(hist, resp).w
    /\ fnArgs' = [fnArgs EXCEPT !.pc = "returned"]
    /\ fatal' = FALSE
    /\ UNCHANGED recoveryRest

NextRecovery ==
    HandlerWriteHeader \/ HandlerWrite \/ HandlerReturn \/ HandlerPanic \/ Recover

SpecRecovery == InitRecovery /\ [][NextRecovery]_vars

\* C39: a panic of the wrapped handler does not reach the caller; the request
\* is answered with status 500 and the JSON error "internal server error",
\* and the panic is logged at error level.
C39_PanicAnswered500 ==
    (fnArgs.pc = "returned" /\ fnArgs.panicked) =>
        /\ ~fatal
        /\ resp.status = StatusInternalServerError
        /\ resp.body = <<RecoveryBody>>
        /\ \E i \in DOMAIN hist : hist[i].level = "ERROR"

-----------------------------------------------------------------------------
(* SpecTimeout: one request under the Timeout middleware. calls holds the    *)
(* position of the middleware ("timeout") and of the goroutine it starts for *)
(* the wrapped handler ("handler"), and whether each is inside a call on w;  *)
(* fnArgs is the request (whether its handler watches r.Context(), the       *)
(* status the handler answers with, when the handler completed), fnDone the  *)
(* done channel being closed, fnRet the response as it stands when the       *)
(* middleware returns, hist the calls made on w, fatal two calls on w that   *)
(* overlapped. The clock runs to MaxTime; the context is done from           *)
(* TimeoutAfter on.                                                          *)

TimeoutAfter == 1

Parties == {"timeout", "handler"}

HandlerBody == "delayed response"

\* json.NewEncoder(w).Encode(map[string]string{"error": "request timeout"})
TimeoutBody == "{\"error\":\"request timeout\"}\n"

NotCompleted == 0 - 1

Outside(pc) == [pc |-> pc, inside |-> FALSE]

NoAnswer == [returned |-> FALSE, status |-> 0, body |-> <<>>]

\* <-ctx.Done() is ready at time t
ctxDone(t) == t >= TimeoutAfter

InitTimeout ==
    /\ endpoints = <<>>
    /\ pathParams = <<>>
    /\ cache = <<>>
    /\ now = 0
    /\ disk = <<>>
    /\ resp = NewRecorder
    /\ \E watches \in BOOLEAN, status \in {200, 201} :
          fnArgs = [watchesContext |-> watches, status |-> status,
                    completedAt |-> NotCompleted]
    /\ fnRet = NoAnswer
    /\ fnDone = FALSE
    /\ hist = <<>>
    /\ mu = <<>>
    /\ calls = [g \in Parties |-> IF g = "timeout" THEN Outside("go") ELSE Outside("unstarted")]
    /\ fatal = FALSE
    /\ NoWatcher

timeoutRest == <<endpoints, pathParams, cache, disk, mu, reloadVars>>

\* Timeout: go func() { next.ServeHTTP(w, r); close(done) }()
TimeoutGo ==
    /\ calls["timeout"].pc = "go"
    /\ calls' = [calls EXCEPT !["timeout"] = Outside("select"), !["handler"] = Outside("wait")]
    /\ UNCHANGED <<now, resp, fnArgs, fnRet, fnDone, hist, fatal, timeoutRest>>

\* Timeout: the select over done and ctx.Done() when it is reached; the
\* positions it may lead to
selects(closed, t) ==
    IF closed /\ ctxDone(t) THEN {"return", "header"}
    ELSE IF closed THEN {"return"}
    ELSE IF ctxDone(t) THEN {"header"}
    ELSE {"parked"}

\* Timeout: the middleware reaches the select
TimeoutSelect ==
    /\ calls["timeout"].pc = "select"
    /\ \E pc \in selects(fnDone, now) : calls' = [calls EXCEPT !["timeout"] = Outside(pc)]
    /\ UNCHANGED <<now, resp, fnArgs, fnRet, fnDone, hist, fatal, timeoutRest>>

\* the clock advances; the deadline wakes a middleware waiting in the select
TimeoutTick ==
    /\ now < MaxTime
    /\ now' = now + 1
    /\ calls' = IF calls["timeout"].pc = "parked" /\ ctxDone(now + 1)
                THEN [calls EXCEPT !["timeout"] = Outside("header")]
                ELSE calls
    /\ UNCHANGED <<resp, fnArgs, fnRet, fnDone, hist, fatal, timeoutRest>>

\* the wrapped handler has done its work and goes on to answer; a handler that
\* watches its context does so only while the context is not done
HandlerWork ==
    /\ calls["handler"].pc = "wait"
    /\ fnArgs.watchesContext => ~ctxDone(now)
    /\ calls' = [calls EXCEPT !["handler"] = Outside("header")]
    /\ UNCHANGED <<now, resp, fnArgs, fnRet, fnDone, hist, fatal, timeoutRest>>

\* a wrapped handler that watches its context returns without writing
HandlerCancelled ==
    /\ calls["handler"].pc = "wait"
    /\ fnArgs.watchesContext
    /\ ctxDone(now)
    /\ calls' = [calls EXCEPT !["handler"] = Outside("close")]
    /\ UNCHANGED <<now, resp, fnArgs, fnRet, fnDone, hist, fatal, timeoutRest>>

\* a party enters w.WriteHeader or w.Write
BeginWrite ==
    \E g \in Parties :
        /\ calls[g].pc \in {"header", "body"}
        /\ ~calls[g].inside
        /\ calls' = [calls EXCEPT ![g].inside = TRUE]
        /\ hist' = Append(hist, [by |-> g, op |-> calls[g].pc])
        /\ fatal' = (fatal \/ \E h \in Parties \ {g} : calls[h].inside)
        /\ UNCHANGED <<now, resp, fnArgs, fnRet, fnDone, timeoutRest>>

\* what the call of party g at position pc leaves in w
written(w, g, pc, status) ==
    IF pc = "header"
    THEN writeHeader(w, IF g = "timeout" THEN StatusRequestTimeout ELSE status)
    ELSE write(w, IF g = "timeout" THEN TimeoutBody ELSE HandlerBody)

\* a party leaves w.WriteHeader or w.Write; calls that overlapped are a data
\* race, after which a call either takes effect or is lost
EndWrite ==
    \E g \in Parties :
        /\ calls[g].inside
        /\ resp' \in {written(resp, g, calls[g].pc, fnArgs.status)} \cup
                     (IF fatal THEN {resp} ELSE {})
        /\ calls' = [calls EXCEPT ![g] =
                        Outside(IF calls[g].pc = "header" THEN "body"
                           ELSE IF g = "timeout" THEN "return" ELSE "close")]
        /\ UNCHANGED <<now, fnArgs, fnRet, fnDone, hist, fatal, timeoutRest>>

\* next.ServeHTTP has returned: close(done), which wakes a middleware waiting
\* in the select
HandlerClose ==
    /\ calls["handler"].pc = "close"
    /\ fnDone' = TRUE
    /\ fnArgs' = [fnArgs EXCEPT !.completedAt = now]
    /\ calls' = [calls EXCEPT !["handler"] = Outside("exited"),
                              !["timeout"] = IF calls["timeout"].pc = "parked"
                                             THEN Outside("return") ELSE @]
    /\ UNCHANGED <<now, resp, fnRet, hist, fatal, timeoutRest>>

\* the handler function of Timeout returns: the response is what w holds
TimeoutReturn ==
    /\ calls["timeout"].pc = "return"
    /\ calls' = [calls EXCEPT !["timeout"] = Outside("returned")]
    /\ fnRet' = [returned |-> TRUE, status |-> resp.status, body |-> resp.body]
    /\ UNCHANGED <<now, resp, fnArgs, fnDone, hist, fatal, timeoutRest>>

NextTimeout ==
    \/ TimeoutGo \/ TimeoutSelect \/ TimeoutTick \/ TimeoutReturn
    \/ HandlerWork \/ HandlerCancelled \/ HandlerClose
    \/ BeginWrite \/ EndWrite

SpecTimeout == InitTimeout /\ [][NextTimeout]_vars

\* the handler completed before the deadline
CompletedInTime ==
    /\ fnArgs.completedAt # NotCompleted
    /\ fnArgs.completedAt < TimeoutAfter

\* C37: a request whose handler completes before the deadline gets the
\* handler's own status and body; a request whose handler has not completed
\* when the deadline passes gets status 408 with the JSON error "request
\* timeout".
C37_OwnAnswerOr408 ==
    fnRet.returned =>
        IF CompletedInTime
        THEN fnRet.status = fnArgs.status /\ fnRet.body = <<HandlerBody>>
        ELSE fnRet.status = StatusRequestTimeout /\ fnRet.body = <<TimeoutBody>>

\* C38: at most one party writes the response of a request: once the
\* deadline branch has written, the wrapped handler makes no call on the same
\* writer, and no two calls on it overlap.
C38_OneWriter ==
    /\ ~fatal
    /\ \A i, j \in DOMAIN hist : hist[i].by = hist[j].by

====
